---- MODULE Spec2Model ----
(***************************************************************************)
(* Model of src/app.py: the Streamlit page that computes the plane-stress  *)
(* transformation and Mohr's circle from four sliders.                     *)
(*                                                                         *)
(* Every number the script computes is an IEEE-754 binary64 value (Python  *)
(* float / numpy.float64).  The model keeps that arithmetic: a value is a  *)
(* pair <<sign, magnitude>> whose magnitude is an exact natural number of  *)
(* units 2^-120, held as little-endian limbs of 15 bits (TLC's integers    *)
(* are 32 bits wide), and every operation rounds its exact result to 53    *)
(* significant bits, ties to even, as the hardware does.  Within the       *)
(* sliders' ranges no value overflows, and none is smaller than 2^-120     *)
(* unless it is zero, so nothing else of binary64 is needed.               *)
(***************************************************************************)
EXTENDS Integers, Sequences, FiniteSets, TLC

\* ------------------------------------------------------------------------
\* Natural numbers of any size: little-endian sequences of limbs, no zero
\* limb at the top, <<>> for zero.
\* ------------------------------------------------------------------------
Base == 2^15
LimbBits == 15
FracLimbs == 8                  \* the unit is 2^-(LimbBits * FracLimbs)
MantBits == 53                  \* significand of a binary64

Limb(a, i) == IF i <= Len(a) THEN a[i] ELSE 0

RECURSIVE Norm(_)
Norm(a) ==
    IF a = <<>> THEN a
    ELSE IF a[Len(a)] = 0 THEN Norm(SubSeq(a, 1, Len(a) - 1)) ELSE a

RECURSIVE AddFrom(_, _, _, _)
AddFrom(a, b, i, c) ==
    IF i > Len(a) /\ i > Len(b)
    THEN IF c = 0 THEN <<>> ELSE <<c>>
    ELSE LET s == Limb(a, i) + Limb(b, i) + c
         IN  <<s % Base>> \o AddFrom(a, b, i + 1, s \div Base)

BAdd(a, b) == AddFrom(a, b, 1, 0)

RECURSIVE SubFrom(_, _, _, _)
SubFrom(a, b, i, br) ==
    IF i > Len(a) THEN <<>>
    ELSE LET s == a[i] - Limb(b, i) - br
         IN  <<IF s < 0 THEN s + Base ELSE s>>
                 \o SubFrom(a, b, i + 1, IF s < 0 THEN 1 ELSE 0)

\* a - b for a >= b
BSub(a, b) == Norm(SubFrom(a, b, 1, 0))

RECURSIVE CmpFrom(_, _, _)
CmpFrom(a, b, i) ==
    IF i = 0 THEN 0
    ELSE IF a[i] > b[i] THEN 1
    ELSE IF a[i] < b[i] THEN -1
    ELSE CmpFrom(a, b, i - 1)

\* -1, 0 or 1 as a < b, a = b, a > b
BCmp(a, b) ==
    IF Len(a) > Len(b) THEN 1
    ELSE IF Len(a) < Len(b) THEN -1
    ELSE CmpFrom(a, b, Len(a))

RECURSIVE MulFrom(_, _, _, _)
MulFrom(a, k, i, c) ==
    IF i > Len(a)
    THEN IF c = 0 THEN <<>> ELSE <<c>>
    ELSE LET p == a[i] * k + c
         IN  <<p % Base>> \o MulFrom(a, k, i + 1, p \div Base)

\* a * k for a limb-sized k
BMulSmall(a, k) == IF k = 0 THEN <<>> ELSE MulFrom(a, k, 1, 0)

ShiftLimbs(a, n) == IF a = <<>> THEN a ELSE [j \in 1..n |-> 0] \o a

DropLimbs(a, n) == IF n >= Len(a) THEN <<>> ELSE SubSeq(a, n + 1, Len(a))

RECURSIVE LowZeros(_, _)
LowZeros(a, i) == IF i > Len(a) \/ a[i] # 0 THEN i - 1 ELSE LowZeros(a, i + 1)

RECURSIVE MulAcc(_, _, _)
MulAcc(a, b, i) ==
    IF i > Len(b) THEN <<>>
    ELSE BAdd(ShiftLimbs(BMulSmall(a, b[i]), i - 1), MulAcc(a, b, i + 1))

BMulZ(a, b, za, zb) ==
    ShiftLimbs(MulAcc(DropLimbs(a, za), DropLimbs(b, zb), 1), za + zb)

\* a * b, schoolbook, on the operands without their low zero limbs
BMul(a, b) == BMulZ(a, b, LowZeros(a, 1), LowZeros(b, 1))

\* a * 2^n
BShl(a, n) == ShiftLimbs(BMulSmall(a, 2^(n % LimbBits)), n \div LimbBits)

\* floor(a / 2^n)
BShrBits(t, r) ==
    Norm([i \in 1..Len(t) |->
            (t[i] \div 2^r) + (Limb(t, i + 1) % 2^r) * 2^(LimbBits - r)])

BShr(a, n) == BShrBits(DropLimbs(a, n \div LimbBits), n % LimbBits)

\* a mod 2^n
BLowAt(a, q, r) ==
    IF q >= Len(a) THEN a
    ELSE Norm(SubSeq(a, 1, q) \o <<a[q + 1] % 2^r>>)

BLow(a, n) == BLowAt(a, n \div LimbBits, n % LimbBits)

BitLen(a) ==
    IF a = <<>> THEN 0
    ELSE LimbBits * (Len(a) - 1)
           + (CHOOSE k \in 1..LimbBits : 2^(k - 1) <= a[Len(a)] /\ a[Len(a)] < 2^k)

BOdd(a) == a # <<>> /\ a[1] % 2 = 1

BOne == <<1>>

\* a rounded to a multiple of 2^n, to nearest, ties to even; sticky says that
\* the exact value lies strictly above a.
RoundUp(q, cmp, sticky) ==
    IF cmp > 0 \/ (cmp = 0 /\ (sticky \/ BOdd(q))) THEN BAdd(q, BOne) ELSE q

RoundNE(a, n, sticky) ==
    BShl(RoundUp(BShr(a, n), BCmp(BLow(a, n), BShl(BOne, n - 1)), sticky), n)

RoundSigAt(a, len, sticky) ==
    IF len <= MantBits THEN a ELSE RoundNE(a, len - MantBits, sticky)

\* a rounded to MantBits significant bits
RoundSig(a, sticky) == RoundSigAt(a, BitLen(a), sticky)

\* bit k of a (bit 0 is the lowest; bits below 0 are 0)
BBit(a, k) ==
    IF k < 0 THEN 0
    ELSE (Limb(a, (k \div LimbBits) + 1) \div 2^(k % LimbBits)) % 2

\* floor(sqrt(floor(a / 2^e))) and the remainder, for the number made of the
\* bit pairs j, j-1, .., 0 of floor(a / 2^e) (e may be negative): the longhand
\* method, one bit of the root for each pair of bits of the operand.
RECURSIVE Isqrt(_, _, _, _, _)
IsqrtStep(a, e, j, root, r4, trial) ==
    IF BCmp(r4, trial) >= 0
    THEN Isqrt(a, e, j - 1, MulFrom(root, 2, 1, 1), BSub(r4, trial))
    ELSE Isqrt(a, e, j - 1, BMulSmall(root, 2), r4)

\* 4 * rem + pair
IsqrtBring(rem, pair) ==
    IF rem = <<>> /\ pair = 0 THEN <<>> ELSE MulFrom(rem, 4, 1, pair)

Isqrt(a, e, j, root, rem) ==
    IF j < 0 THEN <<root, rem>>
    ELSE IsqrtStep(a, e, j, root,
                   IsqrtBring(rem, BBit(a, 2 * j + e) + 2 * BBit(a, 2 * j + e + 1)),
                   MulFrom(root, 4, 1, 1))

\* ------------------------------------------------------------------------
\* binary64 values and operations
\* ------------------------------------------------------------------------
FracBits == LimbBits * FracLimbs

FZero == <<1, <<>>>>

FromInt(n) ==
    IF n = 0 THEN FZero
    ELSE <<IF n < 0 THEN -1 ELSE 1, ShiftLimbs(<<IF n < 0 THEN -n ELSE n>>, FracLimbs)>>

FHalf == <<1, BShl(BOne, FracBits - 1)>>

FNeg(x) == <<-x[1], x[2]>>

FAbs(x) == <<1, x[2]>>

FIsZero(x) == x[2] = <<>>

\* numeric comparison: -1, 0, 1; the two zeros are equal
FCmp(x, y) ==
    IF FIsZero(x) /\ FIsZero(y) THEN 0
    ELSE IF x[1] # y[1] THEN x[1]
    ELSE x[1] * BCmp(x[2], y[2])

FEq(x, y) == FCmp(x, y) = 0
FLe(x, y) == FCmp(x, y) <= 0
FLt(x, y) == FCmp(x, y) < 0

\* x + y for x and y of opposite signs, c comparing their magnitudes
FAddOpposite(x, y, c) ==
    IF c = 0 THEN FZero
    ELSE IF c > 0 THEN <<x[1], RoundSig(BSub(x[2], y[2]), FALSE)>>
    ELSE <<y[1], RoundSig(BSub(y[2], x[2]), FALSE)>>

FAdd(x, y) ==
    IF x[1] = y[1] THEN <<x[1], RoundSig(BAdd(x[2], y[2]), FALSE)>>
    ELSE FAddOpposite(x, y, BCmp(x[2], y[2]))

FSub(x, y) == FAdd(x, FNeg(y))

FMul(x, y) ==
    <<x[1] * y[1], DropLimbs(RoundSig(BMul(x[2], y[2]), FALSE), FracLimbs)>>

\* the root sr = <<floor of the root, remainder>> rounded and put in place
FSqrtRound(sr, lost, e) ==
    <<1, BShl(RoundSig(sr[1], lost \/ sr[2] # <<>>), (FracBits + e) \div 2)>>

FSqrtAt(x, e) ==
    FSqrtRound(Isqrt(x[2], e, MantBits + 1, <<>>, <<>>),
               e > 0 /\ BLow(x[2], e) # <<>>, e)

\* the least even number >= d
EvenUp(d) == IF d % 2 = 0 THEN d ELSE d + 1

\* numpy.sqrt: the correctly rounded square root of x >= 0.  The root of the
\* top 2 * MantBits + 4 bits of x (an even number e of low bits left out) has
\* MantBits + 2 bits; it is rounded with what was left out as the sticky bit.
FSqrt(x) ==
    IF FIsZero(x) THEN x
    ELSE FSqrtAt(x, EvenUp(BitLen(x[2]) - (2 * MantBits + 4)))

FSq(x) == FMul(x, x)

FOneAndHalf == FAdd(FromInt(1), FHalf)

\* Python's max(a, b, c): the first of the largest
PyMax2(a, b) == IF FLt(a, b) THEN b ELSE a

PyMax3(a, b, c) == PyMax2(PyMax2(a, b), c)

\* a natural number below 2^30 as an integer
BToInt(a) == Limb(a, 1) + Limb(a, 2) * Base

\* format(x, ".2f"): the sign ("-" is printed for every negative value, also
\* one that rounds to zero, and for -0.0) and the hundredths of |x| rounded to
\* nearest, ties to even, from the exact binary value.
Fmt2(x) ==
    <<x[1] < 0,
      BToInt(DropLimbs(RoundNE(BMulSmall(x[2], 100), FracBits, FALSE), FracLimbs))>>

\* ------------------------------------------------------------------------
\* numpy.cos(2 * numpy.radians(d)) and numpy.sin(2 * numpy.radians(d)) for the
\* whole degrees d = 0 .. 360, as binary64 values: row d + 1 is <<cos, sin>>.
\* radians(d) is d * (pi / 180) rounded, so the argument at 90 degrees is the
\* binary64 nearest to pi, not pi, and its sine is 1.2246e-16, not 0.
\* ------------------------------------------------------------------------
TrigTable == <<
    <<<<1, <<0, 0, 0, 0, 0, 0, 0, 0, 1>>>>, <<1, <<>>>>>>,
    <<<<1, <<0, 0, 0, 0, 13184, 16133, 1265, 32748>>>>, <<1, <<0, 0, 0, 0, 24888, 8061, 19225, 1143>>>>>>,
    <<<<1, <<0, 0, 0, 0, 31488, 28927, 5858, 32688>>>>, <<1, <<0, 0, 0, 0, 4736, 11594, 25563, 2285>>>>>>,
    <<<<1, <<0, 0, 0, 0, 25344, 30823, 16169, 32588>>>>, <<1, <<0, 0, 0, 0, 30400, 26506, 6182, 3425>>>>>>,
    <<<<1, <<0, 0, 0, 0, 15616, 12436, 3410, 32449>>>>, <<1, <<0, 0, 0, 0, 17184, 9063, 13899, 4560>>>>>>,
    <<<<1, <<0, 0, 0, 0, 2944, 284, 5913, 32270>>>>, <<1, <<0, 0, 0, 0, 28960, 732, 3391, 5690>>>>>>,
    <<<<1, <<0, 0, 0, 0, 16384, 31232, 30820, 32051>>>>, <<1, <<0, 0, 0, 0, 7872, 4246, 27862, 6812>>>>>>,
    <<<<1, <<0, 0, 0, 0, 4736, 31162, 21310, 31794>>>>, <<1, <<0, 0, 0, 0, 9120, 14638, 9721, 7927>>>>>>,
    <<<<1, <<0, 0, 0, 0, 16384, 24187, 20422, 31498>>>>, <<1, <<0, 0, 0, 0, 2624, 6471, 2781, 9032>>>>>>,
    <<<<1, <<0, 0, 0, 0, 32640, 17492, 7206, 31164>>>>, <<1, <<0, 0, 0, 0, 21440, 6132, 28471, 10125>>>>>>,
    <<<<1, <<0, 0, 0, 0, 3584, 21037, 27780, 30791>>>>, <<1, <<0, 0, 0, 0, 32064, 17669, 10356, 11207>>>>>>,
    <<<<1, <<0, 0, 0, 0, 11264, 6091, 31475, 30381>>>>, <<1, <<0, 0, 0, 0, 8256, 29387, 3566, 12275>>>>>>,
    <<<<1, <<0, 0, 0, 0, 19072, 32639, 1885, 29935>>>>, <<1, <<0, 0, 0, 0, 13376, 781, 31009, 13327>>>>>>,
    <<<<1, <<0, 0, 0, 0, 25856, 22072, 22390, 29451>>>>, <<1, <<0, 0, 0, 0, 29184, 24322, 17882, 14364>>>>>>,
    <<<<1, <<0, 0, 0, 0, 1024, 27943, 13982, 28932>>>>, <<1, <<0, 0, 0, 0, 7744, 4648, 21108, 15383>>>>>>,
    <<<<1, <<0, 0, 0, 0, 21888, 22604, 30160, 28377>>>>, <<1, <<0, 0, 0, 0, 32704, 32767, 32767, 16383>>>>>>,
    <<<<1, <<0, 0, 0, 0, 8832, 19881, 27525, 27788>>>>, <<1, <<0, 0, 0, 0, 5376, 11485, 12925, 17364>>>>>>,
    <<<<1, <<0, 0, 0, 0, 20992, 10478, 29595, 27165>>>>, <<1, <<0, 0, 0, 0, 2432, 4605, 20744, 18323>>>>>>,
    <<<<1, <<0, 0, 0, 0, 21504, 6132, 28471, 26509>>>>, <<1, <<0, 0, 0, 0, 12032, 30042, 17928, 19260>>>>>>,
    <<<<1, <<0, 0, 0, 0, 26752, 29795, 17575, 25821>>>>, <<1, <<0, 0, 0, 0, 7296, 15817, 32611, 20173>>>>>>,
    <<<<1, <<0, 0, 0, 0, 7296, 20304, 24389, 25101>>>>, <<1, <<0, 0, 0, 0, 3584, 15382, 28324, 21062>>>>>>,
    <<<<1, <<0, 0, 0, 0, 24832, 13246, 12112, 24351>>>>, <<1, <<0, 0, 0, 0, 27648, 25099, 2349, 21926>>>>>>,
    <<<<1, <<0, 0, 0, 0, 7296, 9549, 10701, 23571>>>>, <<1, <<0, 0, 0, 0, 2048, 24691, 18529, 22762>>>>>>,
    <<<<1, <<0, 0, 0, 0, 2048, 24691, 18529, 22762>>>>, <<1, <<0, 0, 0, 0, 7168, 9549, 10701, 23571>>>>>>,
    <<<<1, <<0, 0, 0, 0, 27648, 25099, 2349, 21926>>>>, <<1, <<0, 0, 0, 0, 24832, 13246, 12112, 24351>>>>>>,
    <<<<1, <<0, 0, 0, 0, 3712, 15382, 28324, 21062>>>>, <<1, <<0, 0, 0, 0, 7296, 20304, 24389, 25101>>>>>>,
    <<<<1, <<0, 0, 0, 0, 7296, 15817, 32611, 20173>>>>, <<1, <<0, 0, 0, 0, 26880, 29795, 17575, 25821>>>>>>,
    <<<<1, <<0, 0, 0, 0, 12032, 30042, 17928, 19260>>>>, <<1, <<0, 0, 0, 0, 21504, 6132, 28471, 26509>>>>>>,
    <<<<1, <<0, 0, 0, 0, 2304, 4605, 20744, 18323>>>>, <<1, <<0, 0, 0, 0, 21120, 10478, 29595, 27165>>>>>>,
    <<<<1, <<0, 0, 0, 0, 5376, 11485, 12925, 17364>>>>, <<1, <<0, 0, 0, 0, 8832, 19881, 27525, 27788>>>>>>,
    <<<<1, <<0, 0, 0, 0, 128, 0, 0, 16384>>>>, <<1, <<0, 0, 0, 0, 21760, 22604, 30160, 28377>>>>>>,
    <<<<1, <<0, 0, 0, 0, 7808, 4648, 21108, 15383>>>>, <<1, <<0, 0, 0, 0, 896, 27943, 13982, 28932>>>>>>,
    <<<<1, <<0, 0, 0, 0, 29248, 24322, 17882, 14364>>>>, <<1, <<0, 0, 0, 0, 25856, 22072, 22390, 29451>>>>>>,
    <<<<1, <<0, 0, 0, 0, 13376, 781, 31009, 13327>>>>, <<1, <<0, 0, 0, 0, 19072, 32639, 1885, 29935>>>>>>,
    <<<<1, <<0, 0, 0, 0, 8192, 29387, 3566, 12275>>>>, <<1, <<0, 0, 0, 0, 11264, 6091, 31475, 30381>>>>>>,
    <<<<1, <<0, 0, 0, 0, 32192, 17669, 10356, 11207>>>>, <<1, <<0, 0, 0, 0, 3456, 21037, 27780, 30791>>>>>>,
    <<<<1, <<0, 0, 0, 0, 21504, 6132, 28471, 10125>>>>, <<1, <<0, 0, 0, 0, 32640, 17492, 7206, 31164>>>>>>,
    <<<<1, <<0, 0, 0, 0, 2624, 6471, 2781, 9032>>>>, <<1, <<0, 0, 0, 0, 16384, 24187, 20422, 31498>>>>>>,
    <<<<1, <<0, 0, 0, 0, 9056, 14638, 9721, 7927>>>>, <<1, <<0, 0, 0, 0, 4736, 31162, 21310, 31794>>>>>>,
    <<<<1, <<0, 0, 0, 0, 8000, 4246, 27862, 6812>>>>, <<1, <<0, 0, 0, 0, 16256, 31232, 30820, 32051>>>>>>,
    <<<<1, <<0, 0, 0, 0, 29056, 732, 3391, 5690>>>>, <<1, <<0, 0, 0, 0, 2944, 284, 5913, 32270>>>>>>,
    <<<<1, <<0, 0, 0, 0, 17216, 9063, 13899, 4560>>>>, <<1, <<0, 0, 0, 0, 15616, 12436, 3410, 32449>>>>>>,
    <<<<1, <<0, 0, 0, 0, 30384, 26506, 6182, 3425>>>>, <<1, <<0, 0, 0, 0, 25344, 30823, 16169, 32588>>>>>>,
    <<<<1, <<0, 0, 0, 0, 4656, 11594, 25563, 2285>>>>, <<1, <<0, 0, 0, 0, 31488, 28927, 5858, 32688>>>>>>,
    <<<<1, <<0, 0, 0, 0, 25016, 8061, 19225, 1143>>>>, <<1, <<0, 0, 0, 0, 13184, 16133, 1265, 32748>>>>>>,
    <<<<1, <<16384, 11779, 13076, 19532, 70>>>>, <<1, <<0, 0, 0, 0, 0, 0, 0, 0, 1>>>>>>,
    <<<<-1, <<0, 0, 0, 0, 24872, 8061, 19225, 1143>>>>, <<1, <<0, 0, 0, 0, 13184, 16133, 1265, 32748>>>>>>,
    <<<<-1, <<0, 0, 0, 0, 4768, 11594, 25563, 2285>>>>, <<1, <<0, 0, 0, 0, 31488, 28927, 5858, 32688>>>>>>,
    <<<<-1, <<0, 0, 0, 0, 30496, 26506, 6182, 3425>>>>, <<1, <<0, 0, 0, 0, 25344, 30823, 16169, 32588>>>>>>,
    <<<<-1, <<0, 0, 0, 0, 17088, 9063, 13899, 4560>>>>, <<1, <<0, 0, 0, 0, 15616, 12436, 3410, 32449>>>>>>,
    <<<<-1, <<0, 0, 0, 0, 28928, 732, 3391, 5690>>>>, <<1, <<0, 0, 0, 0, 2944, 284, 5913, 32270>>>>>>,
    <<<<-1, <<0, 0, 0, 0, 7872, 4246, 27862, 6812>>>>, <<1, <<0, 0, 0, 0, 16384, 31232, 30820, 32051>>>>>>,
    <<<<-1, <<0, 0, 0, 0, 9184, 14638, 9721, 7927>>>>, <<1, <<0, 0, 0, 0, 4736, 31162, 21310, 31794>>>>>>,
    <<<<-1, <<0, 0, 0, 0, 2496, 6471, 2781, 9032>>>>, <<1, <<0, 0, 0, 0, 16384, 24187, 20422, 31498>>>>>>,
    <<<<-1, <<0, 0, 0, 0, 21376, 6132, 28471, 10125>>>>, <<1, <<0, 0, 0, 0, 0, 17493, 7206, 31164>>>>>>,
    <<<<-1, <<0, 0, 0, 0, 32064, 17669, 10356, 11207>>>>, <<1, <<0, 0, 0, 0, 3584, 21037, 27780, 30791>>>>>>,
    <<<<-1, <<0, 0, 0, 0, 8320, 29387, 3566, 12275>>>>, <<1, <<0, 0, 0, 0, 11264, 6091, 31475, 30381>>>>>>,
    <<<<-1, <<0, 0, 0, 0, 13440, 781, 31009, 13327>>>>, <<1, <<0, 0, 0, 0, 19072, 32639, 1885, 29935>>>>>>,
    <<<<-1, <<0, 0, 0, 0, 29312, 24322, 17882, 14364>>>>, <<1, <<0, 0, 0, 0, 25728, 22072, 22390, 29451>>>>>>,
    <<<<-1, <<0, 0, 0, 0, 7872, 4648, 21108, 15383>>>>, <<1, <<0, 0, 0, 0, 896, 27943, 13982, 28932>>>>>>,
    <<<<-1, <<0, 0, 0, 0, 32512, 32767, 32767, 16383>>>>, <<1, <<0, 0, 0, 0, 21888, 22604, 30160, 28377>>>>>>,
    <<<<-1, <<0, 0, 0, 0, 5248, 11485, 12925, 17364>>>>, <<1, <<0, 0, 0, 0, 8960, 19881, 27525, 27788>>>>>>,
    <<<<-1, <<0, 0, 0, 0, 2176, 4605, 20744, 18323>>>>, <<1, <<0, 0, 0, 0, 21120, 10478, 29595, 27165>>>>>>,
    <<<<-1, <<0, 0, 0, 0, 11904, 30042, 17928, 19260>>>>, <<1, <<0, 0, 0, 0, 21504, 6132, 28471, 26509>>>>>>,
    <<<<-1, <<0, 0, 0, 0, 7296, 15817, 32611, 20173>>>>, <<1, <<0, 0, 0, 0, 26880, 29795, 17575, 25821>>>>>>,
    <<<<-1, <<0, 0, 0, 0, 3712, 15382, 28324, 21062>>>>, <<1, <<0, 0, 0, 0, 7296, 20304, 24389, 25101>>>>>>,
    <<<<-1, <<0, 0, 0, 0, 27648, 25099, 2349, 21926>>>>, <<1, <<0, 0, 0, 0, 24832, 13246, 12112, 24351>>>>>>,
    <<<<-1, <<0, 0, 0, 0, 2176, 24691, 18529, 22762>>>>, <<1, <<0, 0, 0, 0, 7168, 9549, 10701, 23571>>>>>>,
    <<<<-1, <<0, 0, 0, 0, 7296, 9549, 10701, 23571>>>>, <<1, <<0, 0, 0, 0, 1920, 24691, 18529, 22762>>>>>>,
    <<<<-1, <<0, 0, 0, 0, 24576, 13246, 12112, 24351>>>>, <<1, <<0, 0, 0, 0, 27776, 25099, 2349, 21926>>>>>>,
    <<<<-1, <<0, 0, 0, 0, 7168, 20304, 24389, 25101>>>>, <<1, <<0, 0, 0, 0, 3840, 15382, 28324, 21062>>>>>>,
    <<<<-1, <<0, 0, 0, 0, 26752, 29795, 17575, 25821>>>>, <<1, <<0, 0, 0, 0, 7424, 15817, 32611, 20173>>>>>>,
    <<<<-1, <<0, 0, 0, 0, 21376, 6132, 28471, 26509>>>>, <<1, <<0, 0, 0, 0, 12160, 30042, 17928, 19260>>>>>>,
    <<<<-1, <<0, 0, 0, 0, 20992, 10478, 29595, 27165>>>>, <<1, <<0, 0, 0, 0, 2432, 4605, 20744, 18323>>>>>>,
    <<<<-1, <<0, 0, 0, 0, 8832, 19881, 27525, 27788>>>>, <<1, <<0, 0, 0, 0, 5376, 11485, 12925, 17364>>>>>>,
    <<<<-1, <<0, 0, 0, 0, 21888, 22604, 30160, 28377>>>>, <<1, <<0, 0, 0, 0, 32704, 32767, 32767, 16383>>>>>>,
    <<<<-1, <<0, 0, 0, 0, 1024, 27943, 13982, 28932>>>>, <<1, <<0, 0, 0, 0, 7616, 4648, 21108, 15383>>>>>>,
    <<<<-1, <<0, 0, 0, 0, 25856, 22072, 22390, 29451>>>>, <<1, <<0, 0, 0, 0, 29056, 24322, 17882, 14364>>>>>>,
    <<<<-1, <<0, 0, 0, 0, 18944, 32639, 1885, 29935>>>>, <<1, <<0, 0, 0, 0, 13632, 781, 31009, 13327>>>>>>,
    <<<<-1, <<0, 0, 0, 0, 11136, 6091, 31475, 30381>>>>, <<1, <<0, 0, 0, 0, 8512, 29387, 3566, 12275>>>>>>,
    <<<<-1, <<0, 0, 0, 0, 3456, 21037, 27780, 30791>>>>, <<1, <<0, 0, 0, 0, 32256, 17669, 10356, 11207>>>>>>,
    <<<<-1, <<0, 0, 0, 0, 32640, 17492, 7206, 31164>>>>, <<1, <<0, 0, 0, 0, 21568, 6132, 28471, 10125>>>>>>,
    <<<<-1, <<0, 0, 0, 0, 16384, 24187, 20422, 31498>>>>, <<1, <<0, 0, 0, 0, 2688, 6471, 2781, 9032>>>>>>,
    <<<<-1, <<0, 0, 0, 0, 4736, 31162, 21310, 31794>>>>, <<1, <<0, 0, 0, 0, 9120, 14638, 9721, 7927>>>>>>,
    <<<<-1, <<0, 0, 0, 0, 16384, 31232, 30820, 32051>>>>, <<1, <<0, 0, 0, 0, 7840, 4246, 27862, 6812>>>>>>,
    <<<<-1, <<0, 0, 0, 0, 2944, 284, 5913, 32270>>>>, <<1, <<0, 0, 0, 0, 28896, 732, 3391, 5690>>>>>>,
    <<<<-1, <<0, 0, 0, 0, 15616, 12436, 3410, 32449>>>>, <<1, <<0, 0, 0, 0, 17056, 9063, 13899, 4560>>>>>>,
    <<<<-1, <<0, 0, 0, 0, 25344, 30823, 16169, 32588>>>>, <<1, <<0, 0, 0, 0, 30704, 26506, 6182, 3425>>>>>>,
    <<<<-1, <<0, 0, 0, 0, 31488, 28927, 5858, 32688>>>>, <<1, <<0, 0, 0, 0, 4992, 11594, 25563, 2285>>>>>>,
    <<<<-1, <<0, 0, 0, 0, 13184, 16133, 1265, 32748>>>>, <<1, <<0, 0, 0, 0, 25088, 8061, 19225, 1143>>>>>>,
    <<<<-1, <<0, 0, 0, 0, 0, 0, 0, 0, 1>>>>, <<1, <<0, 23559, 26152, 6296, 141>>>>>>,
    <<<<-1, <<0, 0, 0, 0, 13184, 16133, 1265, 32748>>>>, <<-1, <<0, 0, 0, 0, 24808, 8061, 19225, 1143>>>>>>,
    <<<<-1, <<0, 0, 0, 0, 31488, 28927, 5858, 32688>>>>, <<-1, <<0, 0, 0, 0, 4704, 11594, 25563, 2285>>>>>>,
    <<<<-1, <<0, 0, 0, 0, 25344, 30823, 16169, 32588>>>>, <<-1, <<0, 0, 0, 0, 30432, 26506, 6182, 3425>>>>>>,
    <<<<-1, <<0, 0, 0, 0, 15488, 12436, 3410, 32449>>>>, <<-1, <<0, 0, 0, 0, 17280, 9063, 13899, 4560>>>>>>,
    <<<<-1, <<0, 0, 0, 0, 2944, 284, 5913, 32270>>>>, <<-1, <<0, 0, 0, 0, 29120, 732, 3391, 5690>>>>>>,
    <<<<-1, <<0, 0, 0, 0, 16256, 31232, 30820, 32051>>>>, <<-1, <<0, 0, 0, 0, 8064, 4246, 27862, 6812>>>>>>,
    <<<<-1, <<0, 0, 0, 0, 4736, 31162, 21310, 31794>>>>, <<-1, <<0, 0, 0, 0, 8864, 14638, 9721, 7927>>>>>>,
    <<<<-1, <<0, 0, 0, 0, 16384, 24187, 20422, 31498>>>>, <<-1, <<0, 0, 0, 0, 2432, 6471, 2781, 9032>>>>>>,
    <<<<-1, <<0, 0, 0, 0, 0, 17493, 7206, 31164>>>>, <<-1, <<0, 0, 0, 0, 21312, 6132, 28471, 10125>>>>>>,
    <<<<-1, <<0, 0, 0, 0, 3584, 21037, 27780, 30791>>>>, <<-1, <<0, 0, 0, 0, 32000, 17669, 10356, 11207>>>>>>,
    <<<<-1, <<0, 0, 0, 0, 11264, 6091, 31475, 30381>>>>, <<-1, <<0, 0, 0, 0, 8256, 29387, 3566, 12275>>>>>>,
    <<<<-1, <<0, 0, 0, 0, 19072, 32639, 1885, 29935>>>>, <<-1, <<0, 0, 0, 0, 13376, 781, 31009, 13327>>>>>>,
    <<<<-1, <<0, 0, 0, 0, 25728, 22072, 22390, 29451>>>>, <<-1, <<0, 0, 0, 0, 29248, 24322, 17882, 14364>>>>>>,
    <<<<-1, <<0, 0, 0, 0, 896, 27943, 13982, 28932>>>>, <<-1, <<0, 0, 0, 0, 7808, 4648, 21108, 15383>>>>>>,
    <<<<-1, <<0, 0, 0, 0, 21760, 22604, 30160, 28377>>>>, <<-1, <<0, 0, 0, 0, 128, 0, 0, 16384>>>>>>,
    <<<<-1, <<0, 0, 0, 0, 8960, 19881, 27525, 27788>>>>, <<-1, <<0, 0, 0, 0, 5248, 11485, 12925, 17364>>>>>>,
    <<<<-1, <<0, 0, 0, 0, 21248, 10478, 29595, 27165>>>>, <<-1, <<0, 0, 0, 0, 2176, 4605, 20744, 18323>>>>>>,
    <<<<-1, <<0, 0, 0, 0, 21632, 6132, 28471, 26509>>>>, <<-1, <<0, 0, 0, 0, 11904, 30042, 17928, 19260>>>>>>,
    <<<<-1, <<0, 0, 0, 0, 26880, 29795, 17575, 25821>>>>, <<-1, <<0, 0, 0, 0, 7168, 15817, 32611, 20173>>>>>>,
    <<<<-1, <<0, 0, 0, 0, 7296, 20304, 24389, 25101>>>>, <<-1, <<0, 0, 0, 0, 3584, 15382, 28324, 21062>>>>>>,
    <<<<-1, <<0, 0, 0, 0, 24832, 13246, 12112, 24351>>>>, <<-1, <<0, 0, 0, 0, 27648, 25099, 2349, 21926>>>>>>,
    <<<<-1, <<0, 0, 0, 0, 7168, 9549, 10701, 23571>>>>, <<-1, <<0, 0, 0, 0, 2176, 24691, 18529, 22762>>>>>>,
    <<<<-1, <<0, 0, 0, 0, 2048, 24691, 18529, 22762>>>>, <<-1, <<0, 0, 0, 0, 7296, 9549, 10701, 23571>>>>>>,
    <<<<-1, <<0, 0, 0, 0, 27520, 25099, 2349, 21926>>>>, <<-1, <<0, 0, 0, 0, 24960, 13246, 12112, 24351>>>>>>,
    <<<<-1, <<0, 0, 0, 0, 3840, 15382, 28324, 21062>>>>, <<-1, <<0, 0, 0, 0, 7168, 20304, 24389, 25101>>>>>>,
    <<<<-1, <<0, 0, 0, 0, 7040, 15817, 32611, 20173>>>>, <<-1, <<0, 0, 0, 0, 27008, 29795, 17575, 25821>>>>>>,
    <<<<-1, <<0, 0, 0, 0, 12160, 30042, 17928, 19260>>>>, <<-1, <<0, 0, 0, 0, 21376, 6132, 28471, 26509>>>>>>,
    <<<<-1, <<0, 0, 0, 0, 2048, 4605, 20744, 18323>>>>, <<-1, <<0, 0, 0, 0, 21248, 10478, 29595, 27165>>>>>>,
    <<<<-1, <<0, 0, 0, 0, 5504, 11485, 12925, 17364>>>>, <<-1, <<0, 0, 0, 0, 8832, 19881, 27525, 27788>>>>>>,
    <<<<-1, <<0, 0, 0, 0, 512, 0, 0, 16384>>>>, <<-1, <<0, 0, 0, 0, 21504, 22604, 30160, 28377>>>>>>,
    <<<<-1, <<0, 0, 0, 0, 7680, 4648, 21108, 15383>>>>, <<-1, <<0, 0, 0, 0, 1024, 27943, 13982, 28932>>>>>>,
    <<<<-1, <<0, 0, 0, 0, 29568, 24322, 17882, 14364>>>>, <<-1, <<0, 0, 0, 0, 25600, 22072, 22390, 29451>>>>>>,
    <<<<-1, <<0, 0, 0, 0, 13248, 781, 31009, 13327>>>>, <<-1, <<0, 0, 0, 0, 19200, 32639, 1885, 29935>>>>>>,
    <<<<-1, <<0, 0, 0, 0, 8576, 29387, 3566, 12275>>>>, <<-1, <<0, 0, 0, 0, 11136, 6091, 31475, 30381>>>>>>,
    <<<<-1, <<0, 0, 0, 0, 31872, 17669, 10356, 11207>>>>, <<-1, <<0, 0, 0, 0, 3584, 21037, 27780, 30791>>>>>>,
    <<<<-1, <<0, 0, 0, 0, 21632, 6132, 28471, 10125>>>>, <<-1, <<0, 0, 0, 0, 32640, 17492, 7206, 31164>>>>>>,
    <<<<-1, <<0, 0, 0, 0, 2304, 6471, 2781, 9032>>>>, <<-1, <<0, 0, 0, 0, 16512, 24187, 20422, 31498>>>>>>,
    <<<<-1, <<0, 0, 0, 0, 9184, 14638, 9721, 7927>>>>, <<-1, <<0, 0, 0, 0, 4736, 31162, 21310, 31794>>>>>>,
    <<<<-1, <<0, 0, 0, 0, 8384, 4246, 27862, 6812>>>>, <<-1, <<0, 0, 0, 0, 16256, 31232, 30820, 32051>>>>>>,
    <<<<-1, <<0, 0, 0, 0, 28960, 732, 3391, 5690>>>>, <<-1, <<0, 0, 0, 0, 2944, 284, 5913, 32270>>>>>>,
    <<<<-1, <<0, 0, 0, 0, 17632, 9063, 13899, 4560>>>>, <<-1, <<0, 0, 0, 0, 15488, 12436, 3410, 32449>>>>>>,
    <<<<-1, <<0, 0, 0, 0, 30272, 26506, 6182, 3425>>>>, <<-1, <<0, 0, 0, 0, 25472, 30823, 16169, 32588>>>>>>,
    <<<<-1, <<0, 0, 0, 0, 5056, 11594, 25563, 2285>>>>, <<-1, <<0, 0, 0, 0, 31488, 28927, 5858, 32688>>>>>>,
    <<<<-1, <<0, 0, 0, 0, 24648, 8061, 19225, 1143>>>>, <<-1, <<0, 0, 0, 0, 13184, 16133, 1265, 32748>>>>>>,
    <<<<-1, <<0, 2570, 6461, 25829, 211>>>>, <<-1, <<0, 0, 0, 0, 0, 0, 0, 0, 1>>>>>>,
    <<<<1, <<0, 0, 0, 0, 25248, 8061, 19225, 1143>>>>, <<-1, <<0, 0, 0, 0, 13184, 16133, 1265, 32748>>>>>>,
    <<<<1, <<0, 0, 0, 0, 4640, 11594, 25563, 2285>>>>, <<-1, <<0, 0, 0, 0, 31616, 28927, 5858, 32688>>>>>>,
    <<<<1, <<0, 0, 0, 0, 29840, 26506, 6182, 3425>>>>, <<-1, <<0, 0, 0, 0, 25472, 30823, 16169, 32588>>>>>>,
    <<<<1, <<0, 0, 0, 0, 17216, 9063, 13899, 4560>>>>, <<-1, <<0, 0, 0, 0, 15616, 12436, 3410, 32449>>>>>>,
    <<<<1, <<0, 0, 0, 0, 28544, 732, 3391, 5690>>>>, <<-1, <<0, 0, 0, 0, 3072, 284, 5913, 32270>>>>>>,
    <<<<1, <<0, 0, 0, 0, 7968, 4246, 27862, 6812>>>>, <<-1, <<0, 0, 0, 0, 16256, 31232, 30820, 32051>>>>>>,
    <<<<1, <<0, 0, 0, 0, 8800, 14638, 9721, 7927>>>>, <<-1, <<0, 0, 0, 0, 4864, 31162, 21310, 31794>>>>>>,
    <<<<1, <<0, 0, 0, 0, 2880, 6471, 2781, 9032>>>>, <<-1, <<0, 0, 0, 0, 16256, 24187, 20422, 31498>>>>>>,
    <<<<1, <<0, 0, 0, 0, 21248, 6132, 28471, 10125>>>>, <<-1, <<0, 0, 0, 0, 0, 17493, 7206, 31164>>>>>>,
    <<<<1, <<0, 0, 0, 0, 32384, 17669, 10356, 11207>>>>, <<-1, <<0, 0, 0, 0, 3456, 21037, 27780, 30791>>>>>>,
    <<<<1, <<0, 0, 0, 0, 8192, 29387, 3566, 12275>>>>, <<-1, <<0, 0, 0, 0, 11264, 6091, 31475, 30381>>>>>>,
    <<<<1, <<0, 0, 0, 0, 12864, 781, 31009, 13327>>>>, <<-1, <<0, 0, 0, 0, 19328, 32639, 1885, 29935>>>>>>,
    <<<<1, <<0, 0, 0, 0, 29184, 24322, 17882, 14364>>>>, <<-1, <<0, 0, 0, 0, 25856, 22072, 22390, 29451>>>>>>,
    <<<<1, <<0, 0, 0, 0, 7296, 4648, 21108, 15383>>>>, <<-1, <<0, 0, 0, 0, 1152, 27943, 13982, 28932>>>>>>,
    <<<<1, <<0, 0, 0, 0, 128, 0, 0, 16384>>>>, <<-1, <<0, 0, 0, 0, 21760, 22604, 30160, 28377>>>>>>,
    <<<<1, <<0, 0, 0, 0, 5120, 11485, 12925, 17364>>>>, <<-1, <<0, 0, 0, 0, 9088, 19881, 27525, 27788>>>>>>,
    <<<<1, <<0, 0, 0, 0, 2560, 4605, 20744, 18323>>>>, <<-1, <<0, 0, 0, 0, 20992, 10478, 29595, 27165>>>>>>,
    <<<<1, <<0, 0, 0, 0, 11776, 30042, 17928, 19260>>>>, <<-1, <<0, 0, 0, 0, 21632, 6132, 28471, 26509>>>>>>,
    <<<<1, <<0, 0, 0, 0, 7552, 15817, 32611, 20173>>>>, <<-1, <<0, 0, 0, 0, 26624, 29795, 17575, 25821>>>>>>,
    <<<<1, <<0, 0, 0, 0, 3584, 15382, 28324, 21062>>>>, <<-1, <<0, 0, 0, 0, 7424, 20304, 24389, 25101>>>>>>,
    <<<<1, <<0, 0, 0, 0, 27136, 25099, 2349, 21926>>>>, <<-1, <<0, 0, 0, 0, 25216, 13246, 12112, 24351>>>>>>,
    <<<<1, <<0, 0, 0, 0, 2048, 24691, 18529, 22762>>>>, <<-1, <<0, 0, 0, 0, 7296, 9549, 10701, 23571>>>>>>,
    <<<<1, <<0, 0, 0, 0, 6912, 9549, 10701, 23571>>>>, <<-1, <<0, 0, 0, 0, 2432, 24691, 18529, 22762>>>>>>,
    <<<<1, <<0, 0, 0, 0, 24832, 13246, 12112, 24351>>>>, <<-1, <<0, 0, 0, 0, 27520, 25099, 2349, 21926>>>>>>,
    <<<<1, <<0, 0, 0, 0, 7040, 20304, 24389, 25101>>>>, <<-1, <<0, 0, 0, 0, 3968, 15382, 28324, 21062>>>>>>,
    <<<<1, <<0, 0, 0, 0, 26880, 29795, 17575, 25821>>>>, <<-1, <<0, 0, 0, 0, 7168, 15817, 32611, 20173>>>>>>,
    <<<<1, <<0, 0, 0, 0, 21376, 6132, 28471, 26509>>>>, <<-1, <<0, 0, 0, 0, 12288, 30042, 17928, 19260>>>>>>,
    <<<<1, <<0, 0, 0, 0, 21248, 10478, 29595, 27165>>>>, <<-1, <<0, 0, 0, 0, 2048, 4605, 20744, 18323>>>>>>,
    <<<<1, <<0, 0, 0, 0, 8832, 19881, 27525, 27788>>>>, <<-1, <<0, 0, 0, 0, 5504, 11485, 12925, 17364>>>>>>,
    <<<<1, <<0, 0, 0, 0, 21504, 22604, 30160, 28377>>>>, <<-1, <<0, 0, 0, 0, 512, 0, 0, 16384>>>>>>,
    <<<<1, <<0, 0, 0, 0, 896, 27943, 13982, 28932>>>>, <<-1, <<0, 0, 0, 0, 7744, 4648, 21108, 15383>>>>>>,
    <<<<1, <<0, 0, 0, 0, 25600, 22072, 22390, 29451>>>>, <<-1, <<0, 0, 0, 0, 29632, 24322, 17882, 14364>>>>>>,
    <<<<1, <<0, 0, 0, 0, 19200, 32639, 1885, 29935>>>>, <<-1, <<0, 0, 0, 0, 13312, 781, 31009, 13327>>>>>>,
    <<<<1, <<0, 0, 0, 0, 11136, 6091, 31475, 30381>>>>, <<-1, <<0, 0, 0, 0, 8640, 29387, 3566, 12275>>>>>>,
    <<<<1, <<0, 0, 0, 0, 3584, 21037, 27780, 30791>>>>, <<-1, <<0, 0, 0, 0, 31936, 17669, 10356, 11207>>>>>>,
    <<<<1, <<0, 0, 0, 0, 32640, 17492, 7206, 31164>>>>, <<-1, <<0, 0, 0, 0, 21696, 6132, 28471, 10125>>>>>>,
    <<<<1, <<0, 0, 0, 0, 16384, 24187, 20422, 31498>>>>, <<-1, <<0, 0, 0, 0, 2368, 6471, 2781, 9032>>>>>>,
    <<<<1, <<0, 0, 0, 0, 4736, 31162, 21310, 31794>>>>, <<-1, <<0, 0, 0, 0, 9280, 14638, 9721, 7927>>>>>>,
    <<<<1, <<0, 0, 0, 0, 16256, 31232, 30820, 32051>>>>, <<-1, <<0, 0, 0, 0, 8480, 4246, 27862, 6812>>>>>>,
    <<<<1, <<0, 0, 0, 0, 2944, 284, 5913, 32270>>>>, <<-1, <<0, 0, 0, 0, 29024, 732, 3391, 5690>>>>>>,
    <<<<1, <<0, 0, 0, 0, 15488, 12436, 3410, 32449>>>>, <<-1, <<0, 0, 0, 0, 17696, 9063, 13899, 4560>>>>>>,
    <<<<1, <<0, 0, 0, 0, 25344, 30823, 16169, 32588>>>>, <<-1, <<0, 0, 0, 0, 30336, 26506, 6182, 3425>>>>>>,
    <<<<1, <<0, 0, 0, 0, 31488, 28927, 5858, 32688>>>>, <<-1, <<0, 0, 0, 0, 5120, 11594, 25563, 2285>>>>>>,
    <<<<1, <<0, 0, 0, 0, 13184, 16133, 1265, 32748>>>>, <<-1, <<0, 0, 0, 0, 24720, 8061, 19225, 1143>>>>>>,
    <<<<1, <<0, 0, 0, 0, 0, 0, 0, 0, 1>>>>, <<-1, <<0, 14350, 19537, 12593, 282>>>>>>,
    <<<<1, <<0, 0, 0, 0, 13184, 16133, 1265, 32748>>>>, <<1, <<0, 0, 0, 0, 25176, 8061, 19225, 1143>>>>>>,
    <<<<1, <<0, 0, 0, 0, 31616, 28927, 5858, 32688>>>>, <<1, <<0, 0, 0, 0, 4560, 11594, 25563, 2285>>>>>>,
    <<<<1, <<0, 0, 0, 0, 25472, 30823, 16169, 32588>>>>, <<1, <<0, 0, 0, 0, 29776, 26506, 6182, 3425>>>>>>,
    <<<<1, <<0, 0, 0, 0, 15616, 12436, 3410, 32449>>>>, <<1, <<0, 0, 0, 0, 17120, 9063, 13899, 4560>>>>>>,
    <<<<1, <<0, 0, 0, 0, 3072, 284, 5913, 32270>>>>, <<1, <<0, 0, 0, 0, 28480, 732, 3391, 5690>>>>>>,
    <<<<1, <<0, 0, 0, 0, 16256, 31232, 30820, 32051>>>>, <<1, <<0, 0, 0, 0, 7904, 4246, 27862, 6812>>>>>>,
    <<<<1, <<0, 0, 0, 0, 4864, 31162, 21310, 31794>>>>, <<1, <<0, 0, 0, 0, 8704, 14638, 9721, 7927>>>>>>,
    <<<<1, <<0, 0, 0, 0, 16256, 24187, 20422, 31498>>>>, <<1, <<0, 0, 0, 0, 2816, 6471, 2781, 9032>>>>>>,
    <<<<1, <<0, 0, 0, 0, 0, 17493, 7206, 31164>>>>, <<1, <<0, 0, 0, 0, 21184, 6132, 28471, 10125>>>>>>,
    <<<<1, <<0, 0, 0, 0, 3456, 21037, 27780, 30791>>>>, <<1, <<0, 0, 0, 0, 32320, 17669, 10356, 11207>>>>>>,
    <<<<1, <<0, 0, 0, 0, 11264, 6091, 31475, 30381>>>>, <<1, <<0, 0, 0, 0, 8128, 29387, 3566, 12275>>>>>>,
    <<<<1, <<0, 0, 0, 0, 18944, 32639, 1885, 29935>>>>, <<1, <<0, 0, 0, 0, 13696, 781, 31009, 13327>>>>>>,
    <<<<1, <<0, 0, 0, 0, 25856, 22072, 22390, 29451>>>>, <<1, <<0, 0, 0, 0, 29120, 24322, 17882, 14364>>>>>>,
    <<<<1, <<0, 0, 0, 0, 1280, 27943, 13982, 28932>>>>, <<1, <<0, 0, 0, 0, 7232, 4648, 21108, 15383>>>>>>,
    <<<<1, <<0, 0, 0, 0, 21760, 22604, 30160, 28377>>>>, <<1, <<0, 0, 0, 0, 0, 0, 0, 16384>>>>>>,
    <<<<1, <<0, 0, 0, 0, 9088, 19881, 27525, 27788>>>>, <<1, <<0, 0, 0, 0, 5120, 11485, 12925, 17364>>>>>>,
    <<<<1, <<0, 0, 0, 0, 20992, 10478, 29595, 27165>>>>, <<1, <<0, 0, 0, 0, 2432, 4605, 20744, 18323>>>>>>,
    <<<<1, <<0, 0, 0, 0, 21632, 6132, 28471, 26509>>>>, <<1, <<0, 0, 0, 0, 11776, 30042, 17928, 19260>>>>>>,
    <<<<1, <<0, 0, 0, 0, 26624, 29795, 17575, 25821>>>>, <<1, <<0, 0, 0, 0, 7424, 15817, 32611, 20173>>>>>>,
    <<<<1, <<0, 0, 0, 0, 7424, 20304, 24389, 25101>>>>, <<1, <<0, 0, 0, 0, 3456, 15382, 28324, 21062>>>>>>,
    <<<<1, <<0, 0, 0, 0, 24576, 13246, 12112, 24351>>>>, <<1, <<0, 0, 0, 0, 27904, 25099, 2349, 21926>>>>>>,
    <<<<1, <<0, 0, 0, 0, 7296, 9549, 10701, 23571>>>>, <<1, <<0, 0, 0, 0, 2048, 24691, 18529, 22762>>>>>>,
    <<<<1, <<0, 0, 0, 0, 2432, 24691, 18529, 22762>>>>, <<1, <<0, 0, 0, 0, 6912, 9549, 10701, 23571>>>>>>,
    <<<<1, <<0, 0, 0, 0, 27648, 25099, 2349, 21926>>>>, <<1, <<0, 0, 0, 0, 24832, 13246, 12112, 24351>>>>>>,
    <<<<1, <<0, 0, 0, 0, 3968, 15382, 28324, 21062>>>>, <<1, <<0, 0, 0, 0, 7040, 20304, 24389, 25101>>>>>>,
    <<<<1, <<0, 0, 0, 0, 7168, 15817, 32611, 20173>>>>, <<1, <<0, 0, 0, 0, 26880, 29795, 17575, 25821>>>>>>,
    <<<<1, <<0, 0, 0, 0, 12288, 30042, 17928, 19260>>>>, <<1, <<0, 0, 0, 0, 21248, 6132, 28471, 26509>>>>>>,
    <<<<1, <<0, 0, 0, 0, 2176, 4605, 20744, 18323>>>>, <<1, <<0, 0, 0, 0, 21248, 10478, 29595, 27165>>>>>>,
    <<<<1, <<0, 0, 0, 0, 5632, 11485, 12925, 17364>>>>, <<1, <<0, 0, 0, 0, 8704, 19881, 27525, 27788>>>>>>,
    <<<<1, <<0, 0, 0, 0, 32448, 32767, 32767, 16383>>>>, <<1, <<0, 0, 0, 0, 22016, 22604, 30160, 28377>>>>>>,
    <<<<1, <<0, 0, 0, 0, 7808, 4648, 21108, 15383>>>>, <<1, <<0, 0, 0, 0, 896, 27943, 13982, 28932>>>>>>,
    <<<<1, <<0, 0, 0, 0, 29696, 24322, 17882, 14364>>>>, <<1, <<0, 0, 0, 0, 25600, 22072, 22390, 29451>>>>>>,
    <<<<1, <<0, 0, 0, 0, 13376, 781, 31009, 13327>>>>, <<1, <<0, 0, 0, 0, 19072, 32639, 1885, 29935>>>>>>,
    <<<<1, <<0, 0, 0, 0, 8704, 29387, 3566, 12275>>>>, <<1, <<0, 0, 0, 0, 11008, 6091, 31475, 30381>>>>>>,
    <<<<1, <<0, 0, 0, 0, 32000, 17669, 10356, 11207>>>>, <<1, <<0, 0, 0, 0, 3584, 21037, 27780, 30791>>>>>>,
    <<<<1, <<0, 0, 0, 0, 21824, 6132, 28471, 10125>>>>, <<1, <<0, 0, 0, 0, 32640, 17492, 7206, 31164>>>>>>,
    <<<<1, <<0, 0, 0, 0, 2432, 6471, 2781, 9032>>>>, <<1, <<0, 0, 0, 0, 16384, 24187, 20422, 31498>>>>>>,
    <<<<1, <<0, 0, 0, 0, 9344, 14638, 9721, 7927>>>>, <<1, <<0, 0, 0, 0, 4736, 31162, 21310, 31794>>>>>>,
    <<<<1, <<0, 0, 0, 0, 7520, 4246, 27862, 6812>>>>, <<1, <<0, 0, 0, 0, 16384, 31232, 30820, 32051>>>>>>,
    <<<<1, <<0, 0, 0, 0, 29088, 732, 3391, 5690>>>>, <<1, <<0, 0, 0, 0, 2944, 284, 5913, 32270>>>>>>,
    <<<<1, <<0, 0, 0, 0, 17760, 9063, 13899, 4560>>>>, <<1, <<0, 0, 0, 0, 15488, 12436, 3410, 32449>>>>>>,
    <<<<1, <<0, 0, 0, 0, 30400, 26506, 6182, 3425>>>>, <<1, <<0, 0, 0, 0, 25344, 30823, 16169, 32588>>>>>>,
    <<<<1, <<0, 0, 0, 0, 5200, 11594, 25563, 2285>>>>, <<1, <<0, 0, 0, 0, 31488, 28927, 5858, 32688>>>>>>,
    <<<<1, <<0, 0, 0, 0, 24784, 8061, 19225, 1143>>>>, <<1, <<0, 0, 0, 0, 13184, 16133, 1265, 32748>>>>>>,
    <<<<1, <<0, 26130, 32613, 32125, 352>>>>, <<1, <<0, 0, 0, 0, 0, 0, 0, 0, 1>>>>>>,
    <<<<-1, <<0, 0, 0, 0, 25104, 8061, 19225, 1143>>>>, <<1, <<0, 0, 0, 0, 13184, 16133, 1265, 32748>>>>>>,
    <<<<-1, <<0, 0, 0, 0, 4496, 11594, 25563, 2285>>>>, <<1, <<0, 0, 0, 0, 31616, 28927, 5858, 32688>>>>>>,
    <<<<-1, <<0, 0, 0, 0, 30720, 26506, 6182, 3425>>>>, <<1, <<0, 0, 0, 0, 25344, 30823, 16169, 32588>>>>>>,
    <<<<-1, <<0, 0, 0, 0, 17056, 9063, 13899, 4560>>>>, <<1, <<0, 0, 0, 0, 15616, 12436, 3410, 32449>>>>>>,
    <<<<-1, <<0, 0, 0, 0, 28416, 732, 3391, 5690>>>>, <<1, <<0, 0, 0, 0, 3072, 284, 5913, 32270>>>>>>,
    <<<<-1, <<0, 0, 0, 0, 6848, 4246, 27862, 6812>>>>, <<1, <<0, 0, 0, 0, 16512, 31232, 30820, 32051>>>>>>,
    <<<<-1, <<0, 0, 0, 0, 9632, 14638, 9721, 7927>>>>, <<1, <<0, 0, 0, 0, 4608, 31162, 21310, 31794>>>>>>,
    <<<<-1, <<0, 0, 0, 0, 2752, 6471, 2781, 9032>>>>, <<1, <<0, 0, 0, 0, 16384, 24187, 20422, 31498>>>>>>,
    <<<<-1, <<0, 0, 0, 0, 21120, 6132, 28471, 10125>>>>, <<1, <<0, 0, 0, 0, 0, 17493, 7206, 31164>>>>>>,
    <<<<-1, <<0, 0, 0, 0, 31296, 17669, 10356, 11207>>>>, <<1, <<0, 0, 0, 0, 3840, 21037, 27780, 30791>>>>>>,
    <<<<-1, <<0, 0, 0, 0, 8960, 29387, 3566, 12275>>>>, <<1, <<0, 0, 0, 0, 11008, 6091, 31475, 30381>>>>>>,
    <<<<-1, <<0, 0, 0, 0, 13632, 781, 31009, 13327>>>>, <<1, <<0, 0, 0, 0, 18944, 32639, 1885, 29935>>>>>>,
    <<<<-1, <<0, 0, 0, 0, 29056, 24322, 17882, 14364>>>>, <<1, <<0, 0, 0, 0, 25856, 22072, 22390, 29451>>>>>>,
    <<<<-1, <<0, 0, 0, 0, 7168, 4648, 21108, 15383>>>>, <<1, <<0, 0, 0, 0, 1280, 27943, 13982, 28932>>>>>>,
    <<<<-1, <<0, 0, 0, 0, 31872, 32767, 32767, 16383>>>>, <<1, <<0, 0, 0, 0, 22400, 22604, 30160, 28377>>>>>>,
    <<<<-1, <<0, 0, 0, 0, 5888, 11485, 12925, 17364>>>>, <<1, <<0, 0, 0, 0, 8576, 19881, 27525, 27788>>>>>>,
    <<<<-1, <<0, 0, 0, 0, 2432, 4605, 20744, 18323>>>>, <<1, <<0, 0, 0, 0, 20992, 10478, 29595, 27165>>>>>>,
    <<<<-1, <<0, 0, 0, 0, 11776, 30042, 17928, 19260>>>>, <<1, <<0, 0, 0, 0, 21760, 6132, 28471, 26509>>>>>>,
    <<<<-1, <<0, 0, 0, 0, 6656, 15817, 32611, 20173>>>>, <<1, <<0, 0, 0, 0, 27392, 29795, 17575, 25821>>>>>>,
    <<<<-1, <<0, 0, 0, 0, 4224, 15382, 28324, 21062>>>>, <<1, <<0, 0, 0, 0, 6784, 20304, 24389, 25101>>>>>>,
    <<<<-1, <<0, 0, 0, 0, 27904, 25099, 2349, 21926>>>>, <<1, <<0, 0, 0, 0, 24576, 13246, 12112, 24351>>>>>>,
    <<<<-1, <<0, 0, 0, 0, 1920, 24691, 18529, 22762>>>>, <<1, <<0, 0, 0, 0, 7296, 9549, 10701, 23571>>>>>>,
    <<<<-1, <<0, 0, 0, 0, 6784, 9549, 10701, 23571>>>>, <<1, <<0, 0, 0, 0, 2560, 24691, 18529, 22762>>>>>>,
    <<<<-1, <<0, 0, 0, 0, 24064, 13246, 12112, 24351>>>>, <<1, <<0, 0, 0, 0, 28416, 25099, 2349, 21926>>>>>>,
    <<<<-1, <<0, 0, 0, 0, 7680, 20304, 24389, 25101>>>>, <<1, <<0, 0, 0, 0, 3328, 15382, 28324, 21062>>>>>>,
    <<<<-1, <<0, 0, 0, 0, 26880, 29795, 17575, 25821>>>>, <<1, <<0, 0, 0, 0, 7296, 15817, 32611, 20173>>>>>>,
    <<<<-1, <<0, 0, 0, 0, 21248, 6132, 28471, 26509>>>>, <<1, <<0, 0, 0, 0, 12288, 30042, 17928, 19260>>>>>>,
    <<<<-1, <<0, 0, 0, 0, 20608, 10478, 29595, 27165>>>>, <<1, <<0, 0, 0, 0, 3072, 4605, 20744, 18323>>>>>>,
    <<<<-1, <<0, 0, 0, 0, 9216, 19881, 27525, 27788>>>>, <<1, <<0, 0, 0, 0, 4864, 11485, 12925, 17364>>>>>>,
    <<<<-1, <<0, 0, 0, 0, 22016, 22604, 30160, 28377>>>>, <<1, <<0, 0, 0, 0, 32512, 32767, 32767, 16383>>>>>>,
    <<<<-1, <<0, 0, 0, 0, 896, 27943, 13982, 28932>>>>, <<1, <<0, 0, 0, 0, 7872, 4648, 21108, 15383>>>>>>,
    <<<<-1, <<0, 0, 0, 0, 25472, 22072, 22390, 29451>>>>, <<1, <<0, 0, 0, 0, 29760, 24322, 17882, 14364>>>>>>,
    <<<<-1, <<0, 0, 0, 0, 18688, 32639, 1885, 29935>>>>, <<1, <<0, 0, 0, 0, 14400, 781, 31009, 13327>>>>>>,
    <<<<-1, <<0, 0, 0, 0, 11392, 6091, 31475, 30381>>>>, <<1, <<0, 0, 0, 0, 7808, 29387, 3566, 12275>>>>>>,
    <<<<-1, <<0, 0, 0, 0, 3584, 21037, 27780, 30791>>>>, <<1, <<0, 0, 0, 0, 32064, 17669, 10356, 11207>>>>>>,
    <<<<-1, <<0, 0, 0, 0, 32512, 17492, 7206, 31164>>>>, <<1, <<0, 0, 0, 0, 21888, 6132, 28471, 10125>>>>>>,
    <<<<-1, <<0, 0, 0, 0, 16128, 24187, 20422, 31498>>>>, <<1, <<0, 0, 0, 0, 3456, 6471, 2781, 9032>>>>>>,
    <<<<-1, <<0, 0, 0, 0, 4864, 31162, 21310, 31794>>>>, <<1, <<0, 0, 0, 0, 8416, 14638, 9721, 7927>>>>>>,
    <<<<-1, <<0, 0, 0, 0, 16384, 31232, 30820, 32051>>>>, <<1, <<0, 0, 0, 0, 7616, 4246, 27862, 6812>>>>>>,
    <<<<-1, <<0, 0, 0, 0, 2944, 284, 5913, 32270>>>>, <<1, <<0, 0, 0, 0, 29152, 732, 3391, 5690>>>>>>,
    <<<<-1, <<0, 0, 0, 0, 15488, 12436, 3410, 32449>>>>, <<1, <<0, 0, 0, 0, 17824, 9063, 13899, 4560>>>>>>,
    <<<<-1, <<0, 0, 0, 0, 25344, 30823, 16169, 32588>>>>, <<1, <<0, 0, 0, 0, 31504, 26506, 6182, 3425>>>>>>,
    <<<<-1, <<0, 0, 0, 0, 31616, 28927, 5858, 32688>>>>, <<1, <<0, 0, 0, 0, 4240, 11594, 25563, 2285>>>>>>,
    <<<<-1, <<0, 0, 0, 0, 13184, 16133, 1265, 32748>>>>, <<1, <<0, 0, 0, 0, 24856, 8061, 19225, 1143>>>>>>,
    <<<<-1, <<0, 0, 0, 0, 0, 0, 0, 0, 1>>>>, <<1, <<0, 5140, 12922, 18890, 423>>>>>>,
    <<<<-1, <<0, 0, 0, 0, 13184, 16133, 1265, 32748>>>>, <<-1, <<0, 0, 0, 0, 24008, 8061, 19225, 1143>>>>>>,
    <<<<-1, <<0, 0, 0, 0, 31488, 28927, 5858, 32688>>>>, <<-1, <<0, 0, 0, 0, 5440, 11594, 25563, 2285>>>>>>,
    <<<<-1, <<0, 0, 0, 0, 25344, 30823, 16169, 32588>>>>, <<-1, <<0, 0, 0, 0, 30656, 26506, 6182, 3425>>>>>>,
    <<<<-1, <<0, 0, 0, 0, 15616, 12436, 3410, 32449>>>>, <<-1, <<0, 0, 0, 0, 16992, 9063, 13899, 4560>>>>>>,
    <<<<-1, <<0, 0, 0, 0, 3072, 284, 5913, 32270>>>>, <<-1, <<0, 0, 0, 0, 28320, 732, 3391, 5690>>>>>>,
    <<<<-1, <<0, 0, 0, 0, 16512, 31232, 30820, 32051>>>>, <<-1, <<0, 0, 0, 0, 6784, 4246, 27862, 6812>>>>>>,
    <<<<-1, <<0, 0, 0, 0, 4608, 31162, 21310, 31794>>>>, <<-1, <<0, 0, 0, 0, 9568, 14638, 9721, 7927>>>>>>,
    <<<<-1, <<0, 0, 0, 0, 16384, 24187, 20422, 31498>>>>, <<-1, <<0, 0, 0, 0, 2688, 6471, 2781, 9032>>>>>>,
    <<<<-1, <<0, 0, 0, 0, 0, 17493, 7206, 31164>>>>, <<-1, <<0, 0, 0, 0, 21056, 6132, 28471, 10125>>>>>>,
    <<<<-1, <<0, 0, 0, 0, 3840, 21037, 27780, 30791>>>>, <<-1, <<0, 0, 0, 0, 31232, 17669, 10356, 11207>>>>>>,
    <<<<-1, <<0, 0, 0, 0, 11008, 6091, 31475, 30381>>>>, <<-1, <<0, 0, 0, 0, 8896, 29387, 3566, 12275>>>>>>,
    <<<<-1, <<0, 0, 0, 0, 18944, 32639, 1885, 29935>>>>, <<-1, <<0, 0, 0, 0, 13568, 781, 31009, 13327>>>>>>,
    <<<<-1, <<0, 0, 0, 0, 25856, 22072, 22390, 29451>>>>, <<-1, <<0, 0, 0, 0, 28992, 24322, 17882, 14364>>>>>>,
    <<<<-1, <<0, 0, 0, 0, 1280, 27943, 13982, 28932>>>>, <<-1, <<0, 0, 0, 0, 7104, 4648, 21108, 15383>>>>>>,
    <<<<-1, <<0, 0, 0, 0, 22400, 22604, 30160, 28377>>>>, <<-1, <<0, 0, 0, 0, 31808, 32767, 32767, 16383>>>>>>,
    <<<<-1, <<0, 0, 0, 0, 8576, 19881, 27525, 27788>>>>, <<-1, <<0, 0, 0, 0, 5888, 11485, 12925, 17364>>>>>>,
    <<<<-1, <<0, 0, 0, 0, 21120, 10478, 29595, 27165>>>>, <<-1, <<0, 0, 0, 0, 2304, 4605, 20744, 18323>>>>>>,
    <<<<-1, <<0, 0, 0, 0, 21760, 6132, 28471, 26509>>>>, <<-1, <<0, 0, 0, 0, 11648, 30042, 17928, 19260>>>>>>,
    <<<<-1, <<0, 0, 0, 0, 27392, 29795, 17575, 25821>>>>, <<-1, <<0, 0, 0, 0, 6528, 15817, 32611, 20173>>>>>>,
    <<<<-1, <<0, 0, 0, 0, 6912, 20304, 24389, 25101>>>>, <<-1, <<0, 0, 0, 0, 4224, 15382, 28324, 21062>>>>>>,
    <<<<-1, <<0, 0, 0, 0, 24704, 13246, 12112, 24351>>>>, <<-1, <<0, 0, 0, 0, 27776, 25099, 2349, 21926>>>>>>,
    <<<<-1, <<0, 0, 0, 0, 7424, 9549, 10701, 23571>>>>, <<-1, <<0, 0, 0, 0, 1920, 24691, 18529, 22762>>>>>>,
    <<<<-1, <<0, 0, 0, 0, 2560, 24691, 18529, 22762>>>>, <<-1, <<0, 0, 0, 0, 6784, 9549, 10701, 23571>>>>>>,
    <<<<-1, <<0, 0, 0, 0, 28416, 25099, 2349, 21926>>>>, <<-1, <<0, 0, 0, 0, 24064, 13246, 12112, 24351>>>>>>,
    <<<<-1, <<0, 0, 0, 0, 3328, 15382, 28324, 21062>>>>, <<-1, <<0, 0, 0, 0, 7552, 20304, 24389, 25101>>>>>>,
    <<<<-1, <<0, 0, 0, 0, 7296, 15817, 32611, 20173>>>>, <<-1, <<0, 0, 0, 0, 26752, 29795, 17575, 25821>>>>>>,
    <<<<-1, <<0, 0, 0, 0, 12416, 30042, 17928, 19260>>>>, <<-1, <<0, 0, 0, 0, 21248, 6132, 28471, 26509>>>>>>,
    <<<<-1, <<0, 0, 0, 0, 3072, 4605, 20744, 18323>>>>, <<-1, <<0, 0, 0, 0, 20608, 10478, 29595, 27165>>>>>>,
    <<<<-1, <<0, 0, 0, 0, 4864, 11485, 12925, 17364>>>>, <<-1, <<0, 0, 0, 0, 9216, 19881, 27525, 27788>>>>>>,
    <<<<-1, <<0, 0, 0, 0, 32576, 32767, 32767, 16383>>>>, <<-1, <<0, 0, 0, 0, 21888, 22604, 30160, 28377>>>>>>,
    <<<<-1, <<0, 0, 0, 0, 7936, 4648, 21108, 15383>>>>, <<-1, <<0, 0, 0, 0, 896, 27943, 13982, 28932>>>>>>,
    <<<<-1, <<0, 0, 0, 0, 29824, 24322, 17882, 14364>>>>, <<-1, <<0, 0, 0, 0, 25472, 22072, 22390, 29451>>>>>>,
    <<<<-1, <<0, 0, 0, 0, 14464, 781, 31009, 13327>>>>, <<-1, <<0, 0, 0, 0, 18688, 32639, 1885, 29935>>>>>>,
    <<<<-1, <<0, 0, 0, 0, 7872, 29387, 3566, 12275>>>>, <<-1, <<0, 0, 0, 0, 11392, 6091, 31475, 30381>>>>>>,
    <<<<-1, <<0, 0, 0, 0, 32128, 17669, 10356, 11207>>>>, <<-1, <<0, 0, 0, 0, 3584, 21037, 27780, 30791>>>>>>,
    <<<<-1, <<0, 0, 0, 0, 21952, 6132, 28471, 10125>>>>, <<-1, <<0, 0, 0, 0, 32512, 17492, 7206, 31164>>>>>>,
    <<<<-1, <<0, 0, 0, 0, 3520, 6471, 2781, 9032>>>>, <<-1, <<0, 0, 0, 0, 16128, 24187, 20422, 31498>>>>>>,
    <<<<-1, <<0, 0, 0, 0, 8480, 14638, 9721, 7927>>>>, <<-1, <<0, 0, 0, 0, 4864, 31162, 21310, 31794>>>>>>,
    <<<<-1, <<0, 0, 0, 0, 7680, 4246, 27862, 6812>>>>, <<-1, <<0, 0, 0, 0, 16384, 31232, 30820, 32051>>>>>>,
    <<<<-1, <<0, 0, 0, 0, 29248, 732, 3391, 5690>>>>, <<-1, <<0, 0, 0, 0, 2944, 284, 5913, 32270>>>>>>,
    <<<<-1, <<0, 0, 0, 0, 17888, 9063, 13899, 4560>>>>, <<-1, <<0, 0, 0, 0, 15488, 12436, 3410, 32449>>>>>>,
    <<<<-1, <<0, 0, 0, 0, 31568, 26506, 6182, 3425>>>>, <<-1, <<0, 0, 0, 0, 25216, 30823, 16169, 32588>>>>>>,
    <<<<-1, <<0, 0, 0, 0, 4320, 11594, 25563, 2285>>>>, <<-1, <<0, 0, 0, 0, 31616, 28927, 5858, 32688>>>>>>,
    <<<<-1, <<0, 0, 0, 0, 24928, 8061, 19225, 1143>>>>, <<-1, <<0, 0, 0, 0, 13184, 16133, 1265, 32748>>>>>>,
    <<<<-1, <<0, 16920, 25998, 5654, 494>>>>, <<-1, <<0, 0, 0, 0, 0, 0, 0, 0, 1>>>>>>,
    <<<<1, <<0, 0, 0, 0, 23944, 8061, 19225, 1143>>>>, <<-1, <<0, 0, 0, 0, 13184, 16133, 1265, 32748>>>>>>,
    <<<<1, <<0, 0, 0, 0, 5376, 11594, 25563, 2285>>>>, <<-1, <<0, 0, 0, 0, 31488, 28927, 5858, 32688>>>>>>,
    <<<<1, <<0, 0, 0, 0, 30576, 26506, 6182, 3425>>>>, <<-1, <<0, 0, 0, 0, 25344, 30823, 16169, 32588>>>>>>,
    <<<<1, <<0, 0, 0, 0, 16928, 9063, 13899, 4560>>>>, <<-1, <<0, 0, 0, 0, 15616, 12436, 3410, 32449>>>>>>,
    <<<<1, <<0, 0, 0, 0, 28256, 732, 3391, 5690>>>>, <<-1, <<0, 0, 0, 0, 3072, 284, 5913, 32270>>>>>>,
    <<<<1, <<0, 0, 0, 0, 6720, 4246, 27862, 6812>>>>, <<-1, <<0, 0, 0, 0, 16512, 31232, 30820, 32051>>>>>>,
    <<<<1, <<0, 0, 0, 0, 9504, 14638, 9721, 7927>>>>, <<-1, <<0, 0, 0, 0, 4608, 31162, 21310, 31794>>>>>>,
    <<<<1, <<0, 0, 0, 0, 2624, 6471, 2781, 9032>>>>, <<-1, <<0, 0, 0, 0, 16384, 24187, 20422, 31498>>>>>>,
    <<<<1, <<0, 0, 0, 0, 20992, 6132, 28471, 10125>>>>, <<-1, <<0, 0, 0, 0, 128, 17493, 7206, 31164>>>>>>,
    <<<<1, <<0, 0, 0, 0, 31168, 17669, 10356, 11207>>>>, <<-1, <<0, 0, 0, 0, 3840, 21037, 27780, 30791>>>>>>,
    <<<<1, <<0, 0, 0, 0, 8832, 29387, 3566, 12275>>>>, <<-1, <<0, 0, 0, 0, 11008, 6091, 31475, 30381>>>>>>,
    <<<<1, <<0, 0, 0, 0, 13504, 781, 31009, 13327>>>>, <<-1, <<0, 0, 0, 0, 19072, 32639, 1885, 29935>>>>>>,
    <<<<1, <<0, 0, 0, 0, 28928, 24322, 17882, 14364>>>>, <<-1, <<0, 0, 0, 0, 25984, 22072, 22390, 29451>>>>>>,
    <<<<1, <<0, 0, 0, 0, 7040, 4648, 21108, 15383>>>>, <<-1, <<0, 0, 0, 0, 1280, 27943, 13982, 28932>>>>>>,
    <<<<1, <<0, 0, 0, 0, 31744, 32767, 32767, 16383>>>>, <<-1, <<0, 0, 0, 0, 22400, 22604, 30160, 28377>>>>>>,
    <<<<1, <<0, 0, 0, 0, 5760, 11485, 12925, 17364>>>>, <<-1, <<0, 0, 0, 0, 8704, 19881, 27525, 27788>>>>>>,
    <<<<1, <<0, 0, 0, 0, 2304, 4605, 20744, 18323>>>>, <<-1, <<0, 0, 0, 0, 21120, 10478, 29595, 27165>>>>>>,
    <<<<1, <<0, 0, 0, 0, 11648, 30042, 17928, 19260>>>>, <<-1, <<0, 0, 0, 0, 21760, 6132, 28471, 26509>>>>>>,
    <<<<1, <<0, 0, 0, 0, 6528, 15817, 32611, 20173>>>>, <<-1, <<0, 0, 0, 0, 27392, 29795, 17575, 25821>>>>>>,
    <<<<1, <<0, 0, 0, 0, 4096, 15382, 28324, 21062>>>>, <<-1, <<0, 0, 0, 0, 6912, 20304, 24389, 25101>>>>>>,
    <<<<1, <<0, 0, 0, 0, 27776, 25099, 2349, 21926>>>>, <<-1, <<0, 0, 0, 0, 24704, 13246, 12112, 24351>>>>>>,
    <<<<1, <<0, 0, 0, 0, 1920, 24691, 18529, 22762>>>>, <<-1, <<0, 0, 0, 0, 7424, 9549, 10701, 23571>>>>>>,
    <<<<1, <<0, 0, 0, 0, 6656, 9549, 10701, 23571>>>>, <<-1, <<0, 0, 0, 0, 2688, 24691, 18529, 22762>>>>>>,
    <<<<1, <<0, 0, 0, 0, 24064, 13246, 12112, 24351>>>>, <<-1, <<0, 0, 0, 0, 28544, 25099, 2349, 21926>>>>>>,
    <<<<1, <<0, 0, 0, 0, 7552, 20304, 24389, 25101>>>>, <<-1, <<0, 0, 0, 0, 3328, 15382, 28324, 21062>>>>>>,
    <<<<1, <<0, 0, 0, 0, 26752, 29795, 17575, 25821>>>>, <<-1, <<0, 0, 0, 0, 7296, 15817, 32611, 20173>>>>>>,
    <<<<1, <<0, 0, 0, 0, 21120, 6132, 28471, 26509>>>>, <<-1, <<0, 0, 0, 0, 12416, 30042, 17928, 19260>>>>>>,
    <<<<1, <<0, 0, 0, 0, 20480, 10478, 29595, 27165>>>>, <<-1, <<0, 0, 0, 0, 3200, 4605, 20744, 18323>>>>>>,
    <<<<1, <<0, 0, 0, 0, 9216, 19881, 27525, 27788>>>>, <<-1, <<0, 0, 0, 0, 4992, 11485, 12925, 17364>>>>>>,
    <<<<1, <<0, 0, 0, 0, 21888, 22604, 30160, 28377>>>>, <<-1, <<0, 0, 0, 0, 32640, 32767, 32767, 16383>>>>>>,
    <<<<1, <<0, 0, 0, 0, 768, 27943, 13982, 28932>>>>, <<-1, <<0, 0, 0, 0, 8000, 4648, 21108, 15383>>>>>>,
    <<<<1, <<0, 0, 0, 0, 25472, 22072, 22390, 29451>>>>, <<-1, <<0, 0, 0, 0, 29888, 24322, 17882, 14364>>>>>>,
    <<<<1, <<0, 0, 0, 0, 18560, 32639, 1885, 29935>>>>, <<-1, <<0, 0, 0, 0, 14528, 781, 31009, 13327>>>>>>,
    <<<<1, <<0, 0, 0, 0, 11392, 6091, 31475, 30381>>>>, <<-1, <<0, 0, 0, 0, 7936, 29387, 3566, 12275>>>>>>,
    <<<<1, <<0, 0, 0, 0, 3456, 21037, 27780, 30791>>>>, <<-1, <<0, 0, 0, 0, 32192, 17669, 10356, 11207>>>>>>,
    <<<<1, <<0, 0, 0, 0, 32512, 17492, 7206, 31164>>>>, <<-1, <<0, 0, 0, 0, 22016, 6132, 28471, 10125>>>>>>,
    <<<<1, <<0, 0, 0, 0, 16128, 24187, 20422, 31498>>>>, <<-1, <<0, 0, 0, 0, 3648, 6471, 2781, 9032>>>>>>,
    <<<<1, <<0, 0, 0, 0, 4864, 31162, 21310, 31794>>>>, <<-1, <<0, 0, 0, 0, 8544, 14638, 9721, 7927>>>>>>,
    <<<<1, <<0, 0, 0, 0, 16384, 31232, 30820, 32051>>>>, <<-1, <<0, 0, 0, 0, 7744, 4246, 27862, 6812>>>>>>,
    <<<<1, <<0, 0, 0, 0, 2944, 284, 5913, 32270>>>>, <<-1, <<0, 0, 0, 0, 29312, 732, 3391, 5690>>>>>>,
    <<<<1, <<0, 0, 0, 0, 15488, 12436, 3410, 32449>>>>, <<-1, <<0, 0, 0, 0, 17984, 9063, 13899, 4560>>>>>>,
    <<<<1, <<0, 0, 0, 0, 25216, 30823, 16169, 32588>>>>, <<-1, <<0, 0, 0, 0, 31632, 26506, 6182, 3425>>>>>>,
    <<<<1, <<0, 0, 0, 0, 31616, 28927, 5858, 32688>>>>, <<-1, <<0, 0, 0, 0, 4384, 11594, 25563, 2285>>>>>>,
    <<<<1, <<0, 0, 0, 0, 13184, 16133, 1265, 32748>>>>, <<-1, <<0, 0, 0, 0, 25000, 8061, 19225, 1143>>>>>>,
    <<<<1, <<0, 0, 0, 0, 0, 0, 0, 0, 1>>>>, <<-1, <<0, 28700, 6306, 25187, 564>>>>>>
>>

\* the angle not doubled: the cosine at deg \div 2 whole degrees doubled
cos2_HalfAngle(deg) == TrigTable[(deg \div 2) + 1][1]

cos2(deg) == TrigTable[deg + 1][1]
\* the angle not doubled: the sine at deg \div 2 whole degrees doubled
sin2_HalfAngle(deg) == TrigTable[(deg \div 2) + 1][2]

sin2(deg) == TrigTable[deg + 1][2]

\* ------------------------------------------------------------------------
\* The sliders (src/app.py lines 28-33)
\* ------------------------------------------------------------------------
SigmaMin == -200
SigmaMax == 200
TauMin == -100
TauMax == 100
AlphaMin == 0
AlphaMax == 180
SxDefault == 80
SyDefault == -20
TxyDefault == 40
AlphaDefault == 0
FallbackExtent == 100

\* The slider positions the model moves through: the first NSx, NSy, NTxy and
\* NAlpha of these lists.  Every slider has step 1, so each whole number of its
\* range is a position.
SxPositions == <<80, -20, 100, 0, -200, 200, 37, -113>>
SyPositions == <<-20, 80, 100, 0, 200, -200, -63, 151>>
TxyPositions == <<40, 0, -40, 100, -100, 17, -71>>
AlphaPositions == <<0, 90, 180, 45, 30, 135, 120, 1, 91, 67, 157>>

NSx == 4
NSy == 4
NTxy == 3
NAlpha == 6
MaxCycles == 4

Prefix(seq, n) == {seq[i] : i \in 1..(IF n < Len(seq) THEN n ELSE Len(seq))}

SxSet == {v \in Prefix(SxPositions, NSx) : SigmaMin <= v /\ v <= SigmaMax}
SySet == {v \in Prefix(SyPositions, NSy) : SigmaMin <= v /\ v <= SigmaMax}
TxySet == {v \in Prefix(TxyPositions, NTxy) : TauMin <= v /\ v <= TauMax}
AlphaSet == {v \in Prefix(AlphaPositions, NAlpha) : AlphaMin <= v /\ v <= AlphaMax}

\* ------------------------------------------------------------------------
\* The computation (src/app.py lines 35-55).  sympy puts eq_sigma and eq_tau
\* in its canonical form when they are built, (sx + sy)/2 becoming
\* sx/2 + sy/2, and lambdify prints the sum in sympy's term order; the
\* functions it makes evaluate
\*   calc_sigma = (1/2)*sx + (1/2)*sy - txy*sin(2*alpha)
\*                  + ((1/2)*sx - (1/2)*sy)*cos(2*alpha)
\*   calc_tau   = txy*cos(2*alpha) + ((1/2)*sx - (1/2)*sy)*sin(2*alpha)
\* from left to right.  The angle is passed as the slider's whole degrees.
\* ------------------------------------------------------------------------
\* the cosine and the sine exchanged
calc_sigma_SwapTrig(sx, sy, txy, deg) ==
    FAdd(FSub(FAdd(FMul(FHalf, sx), FMul(FHalf, sy)), FMul(txy, cos2(deg))),
         FMul(FSub(FMul(FHalf, sx), FMul(FHalf, sy)), sin2(deg)))

calc_sigma(sx, sy, txy, deg) ==
    FAdd(FSub(FAdd(FMul(FHalf, sx), FMul(FHalf, sy)), FMul(txy, sin2(deg))),
         FMul(FSub(FMul(FHalf, sx), FMul(FHalf, sy)), cos2(deg)))

\* the two terms subtracted
calc_tau_SignSlip(sx, sy, txy, deg) ==
    FSub(FMul(txy, cos2(deg)),
         FMul(FSub(FMul(FHalf, sx), FMul(FHalf, sy)), sin2(deg)))

\* the cosine and the sine exchanged
calc_tau_SwapTrig(sx, sy, txy, deg) ==
    FAdd(FMul(txy, sin2(deg)),
         FMul(FSub(FMul(FHalf, sx), FMul(FHalf, sy)), cos2(deg)))

calc_tau(sx, sy, txy, deg) ==
    FAdd(FMul(txy, cos2(deg)),
         FMul(FSub(FMul(FHalf, sx), FMul(FHalf, sy)), sin2(deg)))

\* the sum not halved
Center_NoHalf(sx, sy) == FAdd(sx, sy)

Center(sx, sy) == FMul(FAdd(sx, sy), FHalf)

\* the difference not halved
Radius_NoHalf(sx, sy, txy) == FSqrt(FAdd(FSq(FSub(sx, sy)), FSq(txy)))

Radius(sx, sy, txy) == FSqrt(FAdd(FSq(FMul(FSub(sx, sy), FHalf)), FSq(txy)))

Sigma1(c, r) == FAdd(c, r)

\* the radius added, as for sigma_1
Sigma2_Plus(c, r) == FAdd(c, r)

Sigma2(c, r) == FSub(c, r)

\* no guard against a zero extent
OrFallback_None(m) == m

\* lines 95-97
OrFallback(m) == IF FEq(m, FZero) THEN FromInt(FallbackExtent) ELSE m

MaxVal(s1, s2, r) == OrFallback(FMul(PyMax3(FAbs(s1), FAbs(s2), r), FOneAndHalf))

\* what the run hands to the page: the values, the chart's axis ranges
\* (lines 102-104) and the two panels' numbers (lines 119-123)
Page(deg, cs, ct, c, r, s1, s2, mv) ==
    [current_sigma |-> cs, current_tau |-> ct, center_c |-> c, radius_r |-> r,
     sigma_1 |-> s1, sigma_2 |-> s2, tau_max |-> r, max_val |-> mv,
     xaxis_range |-> <<FSub(c, mv), FAdd(c, mv)>>,
     yaxis_range |-> <<FNeg(mv), mv>>,
     info_panel |-> <<deg, Fmt2(cs), Fmt2(ct)>>,
     error_panel |-> <<Fmt2(s1), Fmt2(s2), Fmt2(r)>>]

Principal(deg, cs, ct, c, r, s1, s2) == Page(deg, cs, ct, c, r, s1, s2, MaxVal(s1, s2, r))

Circle(deg, cs, ct, c, r) == Principal(deg, cs, ct, c, r, Sigma1(c, r), Sigma2(c, r))

Transform(sx, sy, txy, deg) ==
    Circle(deg, calc_sigma(sx, sy, txy, deg), calc_tau(sx, sy, txy, deg),
           Center(sx, sy), Radius(sx, sy, txy))

\* One run of the script on the sliders' values: everything it computes and
\* hands to the page.
Script(vsx, vsy, vtxy, deg) == Transform(FromInt(vsx), FromInt(vsy), FromInt(vtxy), deg)

\* The script's results for each setting of the sliders (@@ has TLC tabulate
\* the function once instead of evaluating it at every use).
InputSpace == SxSet \X SySet \X TxySet \X AlphaSet

Rendered == [in \in InputSpace |-> Script(in[1], in[2], in[3], in[4])] @@ <<>>

\* ------------------------------------------------------------------------
\* The page: the sliders' values, which Streamlit keeps between runs, and
\* what the last run of the script put on the page.
\* ------------------------------------------------------------------------
VARIABLES val_sx, val_sy, val_txy, alpha_deg,
          current_sigma, current_tau, center_c, radius_r,
          sigma_1, sigma_2, tau_max, max_val,
          xaxis_range, yaxis_range, info_panel, error_panel,
          cycles

inputs == <<val_sx, val_sy, val_txy, alpha_deg>>

outputs == <<current_sigma, current_tau, center_c, radius_r, sigma_1, sigma_2,
             tau_max, max_val, xaxis_range, yaxis_range, info_panel, error_panel>>

vars == <<inputs, outputs, cycles>>

\* a run's results in the order of outputs
Shown(R) ==
    <<R.current_sigma, R.current_tau, R.center_c, R.radius_r, R.sigma_1, R.sigma_2,
      R.tau_max, R.max_val, R.xaxis_range, R.yaxis_range, R.info_panel, R.error_panel>>

\* the radius kept from the cycle before
Cycle_StaleRadius(vsx, vsy, vtxy, deg) ==
    LET R == Rendered[<<vsx, vsy, vtxy, deg>>]
    IN  /\ val_sx' = vsx
        /\ val_sy' = vsy
        /\ val_txy' = vtxy
        /\ alpha_deg' = deg
        /\ current_sigma' = R.current_sigma
        /\ current_tau' = R.current_tau
        /\ center_c' = R.center_c
        /\ radius_r' = radius_r
        /\ sigma_1' = R.sigma_1
        /\ sigma_2' = R.sigma_2
        /\ tau_max' = R.tau_max
        /\ max_val' = R.max_val
        /\ xaxis_range' = R.xaxis_range
        /\ yaxis_range' = R.yaxis_range
        /\ info_panel' = R.info_panel
        /\ error_panel' = R.error_panel

\* Streamlit runs the whole script, top to bottom, with the sliders at
\* (vsx, vsy, vtxy, deg), and the page shows what it computed.
Cycle(vsx, vsy, vtxy, deg) ==
    LET R == Rendered[<<vsx, vsy, vtxy, deg>>]
    IN  /\ val_sx' = vsx
        /\ val_sy' = vsy
        /\ val_txy' = vtxy
        /\ alpha_deg' = deg
        /\ current_sigma' = R.current_sigma
        /\ current_tau' = R.current_tau
        /\ center_c' = R.center_c
        /\ radius_r' = R.radius_r
        /\ sigma_1' = R.sigma_1
        /\ sigma_2' = R.sigma_2
        /\ tau_max' = R.tau_max
        /\ max_val' = R.max_val
        /\ xaxis_range' = R.xaxis_range
        /\ yaxis_range' = R.yaxis_range
        /\ info_panel' = R.info_panel
        /\ error_panel' = R.error_panel

\* the page as first served: the sliders at their defaults, the script run once
Init ==
    LET R == Rendered[<<SxDefault, SyDefault, TxyDefault, AlphaDefault>>]
    IN  /\ val_sx = SxDefault
        /\ val_sy = SyDefault
        /\ val_txy = TxyDefault
        /\ alpha_deg = AlphaDefault
        /\ current_sigma = R.current_sigma
        /\ current_tau = R.current_tau
        /\ center_c = R.center_c
        /\ radius_r = R.radius_r
        /\ sigma_1 = R.sigma_1
        /\ sigma_2 = R.sigma_2
        /\ tau_max = R.tau_max
        /\ max_val = R.max_val
        /\ xaxis_range = R.xaxis_range
        /\ yaxis_range = R.yaxis_range
        /\ info_panel = R.info_panel
        /\ error_panel = R.error_panel
        /\ cycles = 0

SlideSx ==
    /\ cycles < MaxCycles
    /\ \E v \in SxSet \ {val_sx} : Cycle(v, val_sy, val_txy, alpha_deg)
    /\ cycles' = cycles + 1

SlideSy ==
    /\ cycles < MaxCycles
    /\ \E v \in SySet \ {val_sy} : Cycle(val_sx, v, val_txy, alpha_deg)
    /\ cycles' = cycles + 1

SlideTxy ==
    /\ cycles < MaxCycles
    /\ \E v \in TxySet \ {val_txy} : Cycle(val_sx, val_sy, v, alpha_deg)
    /\ cycles' = cycles + 1

SlideAlpha ==
    /\ cycles < MaxCycles
    /\ \E v \in AlphaSet \ {alpha_deg} : Cycle(val_sx, val_sy, val_txy, v)
    /\ cycles' = cycles + 1

\* the page's Rerun command: the script runs again on unchanged sliders
Rerun ==
    /\ cycles < MaxCycles
    /\ Cycle(val_sx, val_sy, val_txy, alpha_deg)
    /\ cycles' = cycles + 1

Next == SlideSx \/ SlideSy \/ SlideTxy \/ SlideAlpha \/ Rerun

Spec == Init /\ [][Next]_vars

\* ------------------------------------------------------------------------
\* Exact arithmetic on the computed values, for stating how far apart two of
\* them are: sums and differences that are not rounded.
\* ------------------------------------------------------------------------
SAddOpposite(x, y, c) ==
    IF c = 0 THEN FZero
    ELSE IF c > 0 THEN <<x[1], BSub(x[2], y[2])>>
    ELSE <<y[1], BSub(y[2], x[2])>>

SAdd(x, y) ==
    IF x[1] = y[1] THEN <<x[1], BAdd(x[2], y[2])>>
    ELSE SAddOpposite(x, y, BCmp(x[2], y[2]))

SSub(x, y) == SAdd(x, FNeg(y))

BSq(a) == BMul(a, a)

\* 2^-30, about 9.3e-10
TolMag == BShl(BOne, FracBits - 30)

\* |x - y| <= 2^-30
Within(x, y) == BCmp(SSub(x, y)[2], TolMag) <= 0

\* (cs - c)^2 + ct^2, exactly, in units of 2^-(2 * FracBits)
DistSq(cs, ct, c) == BAdd(BSq(SSub(cs, c)[2]), BSq(ct[2]))

\* the point (cs, ct) is at distance r from (c, 0), up to 2^-30
NearCircle(cs, ct, c, r) ==
    /\ BCmp(DistSq(cs, ct, c), BSq(BAdd(r[2], TolMag))) <= 0
    /\ BCmp(r[2], TolMag) > 0 => BCmp(BSq(BSub(r[2], TolMag)), DistSq(cs, ct, c)) <= 0

AtDefaults ==
    /\ val_sx = SxDefault
    /\ val_sy = SyDefault
    /\ val_txy = TxyDefault
    /\ alpha_deg = AlphaDefault

Isotropic == val_sx = val_sy /\ val_txy = 0

\* the sliders' values as the script reads them
fsx == FromInt(val_sx)
fsy == FromInt(val_sy)
ftxy == FromInt(val_txy)

\* ------------------------------------------------------------------------
\* C1.  As claimed: at sx = 80, sy = -20, txy = 40, alpha = 0, to 2 decimal
\* places, sigma_alpha = 80.00, tau_alpha = 40.00, c = 30.00, r = 58.31,
\* sigma_1 = 88.31, sigma_3 = -28.31, tau_max = 58.31.
\* ------------------------------------------------------------------------
C1_Original ==
    AtDefaults =>
        /\ info_panel = <<0, <<FALSE, 8000>>, <<FALSE, 4000>>>>
        /\ Fmt2(center_c) = <<FALSE, 3000>>
        /\ Fmt2(radius_r) = <<FALSE, 5831>>
        /\ error_panel = <<<<FALSE, 8831>>, <<TRUE, 2831>>, <<FALSE, 5831>>>>

\* C1, amended.  At sx = 80, sy = -20, txy = 40, alpha = 0, to 2 decimal
\* places, sigma_alpha = 80.00, tau_alpha = 40.00, c = 30.00, r = 64.03,
\* sigma_1 = 94.03, sigma_3 = -34.03, tau_max = 64.03.
C1_DefaultValues ==
    AtDefaults =>
        /\ info_panel = <<0, <<FALSE, 8000>>, <<FALSE, 4000>>>>
        /\ Fmt2(center_c) = <<FALSE, 3000>>
        /\ Fmt2(radius_r) = <<FALSE, 6403>>
        /\ error_panel = <<<<FALSE, 9403>>, <<TRUE, 3403>>, <<FALSE, 6403>>>>

C1_Witness == AtDefaults /\ cycles = 0 /\ Fmt2(tau_max) = <<FALSE, 6403>>

\* ------------------------------------------------------------------------
\* C2.  With the angle slider at 0 the transformed stresses are the inputs:
\* current_sigma = sigma_x and current_tau = tau_xy.
\* ------------------------------------------------------------------------
C2_IdentityAtZero ==
    alpha_deg = 0 => FEq(current_sigma, fsx) /\ FEq(current_tau, ftxy)

C2_Witness == alpha_deg = 0 /\ cycles > 0 /\ val_sx # val_sy /\ val_txy # TxyDefault

\* ------------------------------------------------------------------------
\* C3.  As claimed: with the angle slider at 90 the transformed stresses are
\* current_sigma = sigma_y and current_tau = -tau_xy.
\* ------------------------------------------------------------------------
C3_Original ==
    alpha_deg = 90 => FEq(current_sigma, fsy) /\ FEq(current_tau, FNeg(ftxy))

\* C3, amended.  With the angle slider at 90, current_sigma is sigma_y and
\* current_tau is -tau_xy up to the rounding of binary64 arithmetic: each is
\* within 2^-30 of it.
C3_QuarterTurn ==
    alpha_deg = 90 => Within(current_sigma, fsy) /\ Within(current_tau, FNeg(ftxy))

C3_Witness ==
    /\ alpha_deg = 90
    /\ ~FEq(current_sigma, fsy)
    /\ Within(current_sigma, fsy)
    /\ Within(current_tau, FNeg(ftxy))

\* ------------------------------------------------------------------------
\* C4.  sigma_1 >= sigma_3 (the code's sigma_2) always, and they are equal
\* exactly when sigma_x = sigma_y and tau_xy = 0.
\* ------------------------------------------------------------------------
C4_PrincipalOrder ==
    /\ FLe(sigma_2, sigma_1)
    /\ FEq(sigma_1, sigma_2) <=> Isotropic

C4_Witness == Isotropic /\ FEq(sigma_1, sigma_2) /\ cycles > 0

\* ------------------------------------------------------------------------
\* C5.  As claimed: the normal stress at alpha plus the normal stress at
\* alpha + 90 degrees equals sigma_x + sigma_y.
\* ------------------------------------------------------------------------
C5_Original ==
    SAdd(current_sigma, calc_sigma(fsx, fsy, ftxy, alpha_deg + 90))[2]
        = FromInt(val_sx + val_sy)[2]

\* C5, amended.  The normal stress at alpha plus the normal stress at
\* alpha + 90 degrees equals sigma_x + sigma_y up to the rounding of binary64
\* arithmetic: the sum is within 2^-30 of it.
C5_Trace ==
    Within(SAdd(current_sigma, calc_sigma(fsx, fsy, ftxy, alpha_deg + 90)),
           FromInt(val_sx + val_sy))

C5_Witness ==
    /\ alpha_deg = 45
    /\ ~C5_Original
    /\ C5_Trace

\* ------------------------------------------------------------------------
\* C6.  As claimed: the pair (sigma_alpha, tau_alpha) at alpha equals the pair
\* at alpha + 180 degrees; the slider's ends 0 and 180 give the same stresses.
\* ------------------------------------------------------------------------
C6_Original ==
    /\ FEq(current_sigma, calc_sigma(fsx, fsy, ftxy, alpha_deg + 180))
    /\ FEq(current_tau, calc_tau(fsx, fsy, ftxy, alpha_deg + 180))

\* C6, amended.  The pair (sigma_alpha, tau_alpha) at alpha equals the pair at
\* alpha + 180 degrees up to the rounding of binary64 arithmetic: each of the
\* two is within 2^-30 of its counterpart, at the slider's ends 0 and 180 too.
C6_Periodicity ==
    /\ Within(current_sigma, calc_sigma(fsx, fsy, ftxy, alpha_deg + 180))
    /\ Within(current_tau, calc_tau(fsx, fsy, ftxy, alpha_deg + 180))

C6_Witness ==
    /\ alpha_deg = 0
    /\ cycles > 0
    /\ ~FEq(current_sigma, calc_sigma(fsx, fsy, ftxy, 180))
    /\ C6_Periodicity

\* ------------------------------------------------------------------------
\* C7.  max_val is 1.5 times the largest of |sigma_1|, |sigma_3| and r, or 100
\* when that is zero; so max_val > 0 and neither axis range is empty.
\* ------------------------------------------------------------------------
C7_ViewExtent ==
    /\ \E m \in {FAbs(sigma_1), FAbs(sigma_2), radius_r} :
          /\ FLe(FAbs(sigma_1), m) /\ FLe(FAbs(sigma_2), m) /\ FLe(radius_r, m)
          /\ max_val = IF FIsZero(m) THEN FromInt(FallbackExtent)
                       ELSE FMul(m, FOneAndHalf)
    /\ FLt(FZero, max_val)
    /\ xaxis_range = <<FSub(center_c, max_val), FAdd(center_c, max_val)>>
    /\ yaxis_range = <<FNeg(max_val), max_val>>
    /\ FLt(xaxis_range[1], xaxis_range[2])
    /\ FLt(yaxis_range[1], yaxis_range[2])

C7_Witness ==
    /\ FIsZero(sigma_1) /\ FIsZero(sigma_2) /\ FIsZero(radius_r)
    /\ max_val = FromInt(FallbackExtent)
    /\ cycles > 0

\* ------------------------------------------------------------------------
\* C8.  After any sequence of slider changes and reruns, everything on the
\* page is what one run of the script computes from the four current slider
\* values: no earlier cycle shows in it.
\* ------------------------------------------------------------------------
C8_Stateless ==
    outputs = Shown(Script(val_sx, val_sy, val_txy, alpha_deg))

C8_Witness == AtDefaults /\ cycles = MaxCycles

\* ------------------------------------------------------------------------
\* C9.  When sigma_x = sigma_y = s and tau_xy = 0, at every angle
\* sigma_alpha = s, tau_alpha = 0, r = 0, sigma_1 = sigma_3 = c = s and
\* tau_max = 0.
\* ------------------------------------------------------------------------
C9_Isotropic ==
    Isotropic =>
        /\ FEq(current_sigma, fsx)
        /\ FEq(current_tau, FZero)
        /\ FEq(radius_r, FZero)
        /\ FEq(tau_max, FZero)
        /\ FEq(center_c, fsx)
        /\ FEq(sigma_1, fsx)
        /\ FEq(sigma_2, fsx)

C9_Witness == Isotropic /\ val_sx = 100 /\ alpha_deg = 135

\* ------------------------------------------------------------------------
\* C10.  As claimed: the current-state point lies on the circle,
\* (sigma_alpha - c)^2 + tau_alpha^2 = r^2, so that |tau_alpha| <= tau_max
\* and sigma_3 <= sigma_alpha <= sigma_1.
\* ------------------------------------------------------------------------
C10_Original ==
    /\ DistSq(current_sigma, current_tau, center_c) = BSq(radius_r[2])
    /\ FLe(FAbs(current_tau), tau_max)
    /\ FLe(sigma_2, current_sigma)
    /\ FLe(current_sigma, sigma_1)

\* C10, amended.  The current-state point lies on the circle up to the
\* rounding of binary64 arithmetic: its distance from (c, 0) is within 2^-30
\* of r; and |tau_alpha| <= tau_max and sigma_3 <= sigma_alpha <= sigma_1.
C10_PointOnCircle ==
    /\ NearCircle(current_sigma, current_tau, center_c, radius_r)
    /\ FLe(FAbs(current_tau), tau_max)
    /\ FLe(sigma_2, current_sigma)
    /\ FLe(current_sigma, sigma_1)

C10_Witness ==
    /\ alpha_deg = 45
    /\ ~FIsZero(radius_r)
    /\ DistSq(current_sigma, current_tau, center_c) # BSq(radius_r[2])
    /\ C10_PointOnCircle

====
